---- MODULE Spec2Model ----
(***************************************************************************)
(* A model of constago's model-building engine (lib/model_builder.go, the  *)
(* Model aggregate of lib, and the string helpers).                        *)
(*                                                                         *)
(* Representation.  A Go string is a sequence of one-character strings     *)
(* (<<"N","a","m","e">>), so that the code's character-level work (word    *)
(* splitting, case mapping, cutting at a comma, the export test) is        *)
(* computed and not assumed.  A struct tag is the sequence of its          *)
(* key/value pairs in source order; reflect.StructTag.Get is the value of  *)
(* the first pair with the key.  A Go map is a TLA+ function; where the    *)
(* code ranges over a map, every iteration order is considered.            *)
(***************************************************************************)
EXTENDS Integers, Sequences, FiniteSets, TLC

VARIABLES
    cfg,      \* the *Config the builder was constructed with
    fs,       \* the directory tree under Input.Dir: path -> file facts
    pc,       \* position of the run: Build, a direct AddStruct run, a call
    files,    \* scanFiles: the list findFiles returned, not yet scanned part
    model,    \* the *Model: Packages, counters, Errors
    buildErr, \* the error Build returned (TRUE) or nil (FALSE)
    call,     \* the function application of a function-level run
    hist      \* history (ghost): what was requested, in order

vars == <<cfg, fs, pc, files, model, buildErr, call, hist>>

---------------------------------------------------------------------------
(* Bounds of the model.                                                    *)

\* files of the scanned tree
MaxFiles == 2
\* successive AddStruct calls of a direct run
MaxAddCalls == 3
\* getter returns handed to Model.AddStruct in one run, over all calls
MaxAddReturns == 3
\* include patterns / exclude patterns of a configuration
MaxInclude == 2
MaxExclude == 2
\* key/value pairs of a struct tag
MaxTagPairs == 2
\* fields of a scanned struct declaration
MaxFields == 2
\* returns of a configured getter
MaxReturns == 2
\* imports registered in a package before the one whose alias is resolved
MaxAliasImports == 2
\* nested calls of setRecursiveAlias the stepwise run follows
MaxAliasDepth == 6
\* characters of a value handed to transformFieldValue
MaxValueLen == 3
\* wrappers (slice, array, pointer, map, channel, type arguments) around
\* the name at the core of a field type
MaxTypeDepth == 2

---------------------------------------------------------------------------
(* Strings.                                                                *)

LowerLetters == <<"a","b","c","d","e","f","g","h","i","j","k","l","m",
                  "n","o","p","q","r","s","t","u","v","w","x","y","z">>

UpperLetters == <<"A","B","C","D","E","F","G","H","I","J","K","L","M",
                  "N","O","P","Q","R","S","T","U","V","W","X","Y","Z">>

Range(s) == { s[i] : i \in DOMAIN s }

\* unicode.IsUpper, on the letters of the model
IsUpper(c) == c \in Range(UpperLetters)

IsLower(c) == c \in Range(LowerLetters)

\* unicode.ToUpper / unicode.ToLower of one character
ToUpperCh(c) ==
    IF IsLower(c)
    THEN UpperLetters[CHOOSE i \in DOMAIN LowerLetters : LowerLetters[i] = c]
    ELSE c

ToLowerCh(c) ==
    IF IsUpper(c)
    THEN LowerLetters[CHOOSE i \in DOMAIN UpperLetters : UpperLetters[i] = c]
    ELSE c

\* strings.ToUpper / strings.ToLower
ToUpper(s) == [i \in DOMAIN s |-> ToUpperCh(s[i])]

ToLower(s) == [i \in DOMAIN s |-> ToLowerCh(s[i])]

\* strings.TrimSpace(s) == "": only white space (the space of the model)
IsBlank(s) == \A i \in DOMAIN s : s[i] = " "

\* strings.HasPrefix
HasPrefix(s, p) == Len(s) >= Len(p) /\ SubSeq(s, 1, Len(p)) = p

\* strings.Join
RECURSIVE Join(_, _)
Join(ws, sep) ==
    IF ws = <<>> THEN <<>>
    ELSE IF Len(ws) = 1 THEN ws[1]
    ELSE ws[1] \o sep \o Join(Tail(ws), sep)

\* strings.SplitN(v, ",", 2)[0]: the part before the first comma
BeforeComma(v) ==
    IF \E i \in DOMAIN v : v[i] = ","
    THEN SubSeq(v, 1, (CHOOSE i \in DOMAIN v :
                          v[i] = "," /\ \A j \in 1..(i-1) : v[j] # ",") - 1)
    ELSE v

\* cases.Title(language.Und, cases.NoLower) on one word without separators:
\* the first letter in title case, the rest as it is
Title(w) == IF w = <<>> THEN w ELSE <<ToUpperCh(w[1])>> \o Tail(w)

isSeparator(r) == r \in {"_", "-", " ", ".", "/"}

\* the loop of splitIntoWords from character i on, with the words found so
\* far and the word being built
RECURSIVE splitLoop(_, _, _, _)
splitLoop(s, i, words, cur) ==
    IF i > Len(s)
    THEN IF cur # <<>> THEN Append(words, cur) ELSE words
    ELSE IF isSeparator(s[i])
    THEN IF cur # <<>>
         THEN splitLoop(s, i + 1, Append(words, cur), <<>>)
         ELSE splitLoop(s, i + 1, words, cur)
    ELSE IF IsUpper(s[i])
    THEN IF cur # <<>> /\ ~IsUpper(s[i-1])
         THEN splitLoop(s, i + 1, Append(words, cur), <<s[i]>>)
         ELSE splitLoop(s, i + 1, words, Append(cur, s[i]))
    ELSE splitLoop(s, i + 1, words, Append(cur, s[i]))

\* splitIntoWords without the camelCase/PascalCase boundary: words end at
\* separators only
RECURSIVE splitLoop_separatorsOnly(_, _, _, _)
splitLoop_separatorsOnly(s, i, words, cur) ==
    IF i > Len(s)
    THEN IF cur # <<>> THEN Append(words, cur) ELSE words
    ELSE IF isSeparator(s[i])
    THEN IF cur # <<>>
         THEN splitLoop_separatorsOnly(s, i + 1, Append(words, cur), <<>>)
         ELSE splitLoop_separatorsOnly(s, i + 1, words, cur)
    ELSE splitLoop_separatorsOnly(s, i + 1, words, Append(cur, s[i]))

splitIntoWords_separatorsOnly(s) ==
    IF s = <<>> THEN <<>> ELSE splitLoop_separatorsOnly(s, 1, <<>>, <<>>)

splitIntoWords(s) == IF s = <<>> THEN <<>> ELSE splitLoop(s, 1, <<>>, <<>>)

RECURSIVE titleAll(_)
titleAll(words) ==
    IF words = <<>> THEN <<>>
    ELSE (IF words[1] # <<>> THEN Title(ToLower(words[1])) ELSE <<>>)
         \o titleAll(Tail(words))

arrayToPascalCase(words) == IF Len(words) = 0 THEN <<>> ELSE titleAll(words)

arrayToCamelCase(words) ==
    IF Len(words) = 0 THEN <<>>
    ELSE ToLower(words[1]) \o titleAll(Tail(words))

toCamelCase(s) == IF s = <<>> THEN s ELSE arrayToCamelCase(splitIntoWords(s))

toPascalCase(s) == IF s = <<>> THEN s ELSE arrayToPascalCase(splitIntoWords(s))

\* ast.IsExported / token.IsExported: the first character is upper case
IsExported(name) == name # <<>> /\ IsUpper(name[1])

---------------------------------------------------------------------------
(* Names and values (the Value & Name Engine).                             *)

NonEmpty(parts) == SelectSeq(parts, LAMBDA p : p # <<>>)

\* buildName: the non-empty parts joined by a space, then the format
buildName(prefix, mid, mid2, suffix, fmtType) ==
    LET base == Join(NonEmpty(<<prefix, mid, mid2, suffix>>), <<" ">>)
    IN  CASE fmtType = "camel"      -> toCamelCase(base)
          [] fmtType = "pascal"     -> toPascalCase(base)
          [] fmtType = "snake"      -> ToLower(Join(splitIntoWords(base), <<"_">>))
          [] fmtType = "snakeUpper" -> ToUpper(Join(splitIntoWords(base), <<"_">>))
          [] OTHER                  -> toPascalCase(base)

transformFieldValue(value, caseType, sep) ==
    LET v1 == IF sep # <<>> /\ caseType # "asIs"
              THEN Join(splitIntoWords(value), <<" ">>)
              ELSE value
        v2 == CASE caseType = "asIs"   -> v1
                [] caseType = "camel"  -> toCamelCase(v1)
                [] caseType = "pascal" -> toPascalCase(v1)
                [] caseType = "upper"  -> ToUpper(v1)
                [] caseType = "lower"  -> ToLower(v1)
                [] OTHER               -> v1
    IN  IF sep # <<>> THEN Join(splitIntoWords(v2), sep) ELSE v2

---------------------------------------------------------------------------
(* Tags and the inclusion policy (the Declaration Scanner).                *)

\* reflect.StructTag.Get: the value of the first pair with the key, else ""
TagGet(tags, key) ==
    IF \E i \in DOMAIN tags : tags[i].key = key
    THEN tags[CHOOSE i \in DOMAIN tags :
                 tags[i].key = key /\ \A j \in 1..(i-1) : tags[j].key # key].value
    ELSE <<>>

\* lookupTag without strings.TrimSpace: only the empty value is absent
lookupTag_noTrim(tags, key) ==
    LET v == TagGet(tags, key)
    IN  IF v = <<>> THEN [v |-> <<>>, ok |-> FALSE] ELSE [v |-> v, ok |-> TRUE]

\* lookupTag: a tag whose value is blank counts as absent
lookupTag(tags, key) ==
    LET v == TagGet(tags, key)
    IN  IF IsBlank(v) THEN [v |-> <<>>, ok |-> FALSE] ELSE [v |-> v, ok |-> TRUE]

\* strings.Contains(comment, "constago:include") and "constago:exclude", on
\* the comment texts of the model
CommentHas(comment, marker) ==
    CASE comment = "//constago:include"  -> marker = "constago:include"
      [] comment = "// constago:exclude" -> marker = "constago:exclude"
      [] comment = "// see constago:include or constago:exclude"
                                         -> TRUE
      [] OTHER                           -> FALSE

\* structDirectives: the comment groups of the declaration and of the spec;
\* a nil group is the empty sequence
structDirectives(decl) ==
    LET all == decl.declDoc \o decl.specDoc
    IN  [include |-> \E i \in DOMAIN all : CommentHas(all[i], "constago:include"),
         exclude |-> \E i \in DOMAIN all : CommentHas(all[i], "constago:exclude")]

\* mustIncludeStruct with the visibility test not guarded by the include
\* directive
mustIncludeStruct_visibilityFirst(c, decl) ==
    LET d == structDirectives(decl)
    IN  IF d.include /\ d.exclude
        THEN [include |-> FALSE, error |-> TRUE]
        ELSE IF d.exclude \/ (c.Input.Struct.Explicit /\ ~d.include)
        THEN [include |-> FALSE, error |-> FALSE]
        ELSE IF ~c.Input.Struct.IncludeUnexported /\ ~IsExported(decl.name)
        THEN [include |-> FALSE, error |-> FALSE]
        ELSE [include |-> TRUE, error |-> FALSE]

\* mustIncludeStruct letting the include directive win over the exclude
\* directive instead of reporting the pair
mustIncludeStruct_includeWins(c, decl) ==
    LET d == structDirectives(decl)
    IN  IF d.include THEN [include |-> TRUE, error |-> FALSE]
        ELSE IF d.exclude \/ c.Input.Struct.Explicit
        THEN [include |-> FALSE, error |-> FALSE]
        ELSE IF ~c.Input.Struct.IncludeUnexported /\ ~IsExported(decl.name)
        THEN [include |-> FALSE, error |-> FALSE]
        ELSE [include |-> TRUE, error |-> FALSE]

\* mustIncludeStruct: the decision, and whether it called model.AddError
mustIncludeStruct(c, decl) ==
    LET d == structDirectives(decl)
    IN  IF d.include /\ d.exclude
        THEN [include |-> FALSE, error |-> TRUE]
        ELSE IF d.exclude \/ (c.Input.Struct.Explicit /\ ~d.include)
        THEN [include |-> FALSE, error |-> FALSE]
        ELSE IF ~d.include /\ ~c.Input.Struct.IncludeUnexported /\ ~IsExported(decl.name)
        THEN [include |-> FALSE, error |-> FALSE]
        ELSE [include |-> TRUE, error |-> FALSE]

S_constagoExclude == <<"e","x","c","l","u","d","e">>

S_constagoInclude == <<"i","n","c","l","u","d","e">>

\* mustIncludeField with the explicit-mode test before the tag values
mustIncludeField_explicitFirst(c, field) ==
    LET t == lookupTag(field.tag, "constago")
    IN  IF c.Input.Field.Explicit THEN t.ok /\ t.v = S_constagoInclude
        ELSE IF t.ok /\ t.v = S_constagoExclude THEN FALSE
        ELSE IF t.ok /\ t.v = S_constagoInclude THEN TRUE
        ELSE IF ~c.Input.Field.IncludeUnexported /\ Len(field.names) > 0
                /\ ~IsExported(field.names[1]) THEN FALSE
        ELSE TRUE

\* mustIncludeField: field is one field declaration (names, tag, type)
mustIncludeField(c, field) ==
    LET t == lookupTag(field.tag, "constago")
    IN  IF t.ok /\ t.v = S_constagoExclude THEN FALSE
        ELSE IF t.ok /\ t.v = S_constagoInclude THEN TRUE
        ELSE IF c.Input.Field.Explicit /\ ~t.ok THEN FALSE
        ELSE IF ~c.Input.Field.IncludeUnexported /\ Len(field.names) > 0
                /\ ~IsExported(field.names[1]) THEN FALSE
        ELSE TRUE

\* getFromTags of computeElementValue: the loop over el.Input.TagPriority
\* from key i on
RECURSIVE getFromTagsLoop(_, _, _, _)
getFromTagsLoop(fieldName, tags, priority, i) ==
    IF i > Len(priority) THEN [v |-> <<>>, ok |-> FALSE]
    ELSE IF priority[i] = ":field" THEN [v |-> fieldName, ok |-> TRUE]
    ELSE IF lookupTag(tags, priority[i]).ok
         THEN [v |-> BeforeComma(lookupTag(tags, priority[i]).v), ok |-> TRUE]
         ELSE getFromTagsLoop(fieldName, tags, priority, i + 1)

getFromTags(fieldName, tags, el) ==
    IF tags = <<>> THEN [v |-> <<>>, ok |-> FALSE]
    ELSE getFromTagsLoop(fieldName, tags, el.Input.TagPriority, 1)

applyTransform(s, el) ==
    transformFieldValue(s, el.Output.Transform.ValueCase,
                        el.Output.Transform.ValueSeparator)

\* computeElementValue with the tag_values test left out: a tag value is
\* transformed like a field name
computeElementValue_alwaysTransform(fieldName, tags, el) ==
    LET t == getFromTags(fieldName, tags, el)
    IN  CASE el.Input.Mode = "tag" ->
               IF t.ok THEN applyTransform(t.v, el) ELSE <<>>
          [] el.Input.Mode = "field" -> applyTransform(fieldName, el)
          [] el.Input.Mode = "tagThenField" ->
               IF t.ok THEN applyTransform(t.v, el)
               ELSE applyTransform(fieldName, el)
          [] OTHER -> <<>>

computeElementValue(fieldName, tags, el) ==
    LET t == getFromTags(fieldName, tags, el)
    IN  CASE el.Input.Mode = "tag" ->
               IF t.ok
               THEN IF el.Output.Transform.TagValues
                    THEN applyTransform(t.v, el) ELSE t.v
               ELSE <<>>
          [] el.Input.Mode = "field" -> applyTransform(fieldName, el)
          [] el.Input.Mode = "tagThenField" ->
               IF t.ok
               THEN IF el.Output.Transform.TagValues
                    THEN applyTransform(t.v, el) ELSE t.v
               ELSE applyTransform(fieldName, el)
          [] OTHER -> <<>>

---------------------------------------------------------------------------
(* Imports and types (the Import Resolver).                                *)
(* A nil *TypePackageOutput is <<>>, a non-nil one is <<record>>.  Where   *)
(* the code takes the first match of a range over the import index, the    *)
(* operator is the set of the results of all iteration orders.             *)

Contains(s, sub) ==
    \E i \in 1..(Len(s) + 1) :
        i + Len(sub) - 1 <= Len(s) /\ SubSeq(s, i, i + Len(sub) - 1) = sub

TrimPrefix(s, p) == IF HasPrefix(s, p) THEN SubSeq(s, Len(p) + 1, Len(s)) ELSE s

\* strings.Split(s, ch) for a one-character separator
RECURSIVE splitAt(_, _, _, _, _)
splitAt(s, ch, i, parts, cur) ==
    IF i > Len(s) THEN Append(parts, cur)
    ELSE IF s[i] = ch THEN splitAt(s, ch, i + 1, Append(parts, cur), <<>>)
    ELSE splitAt(s, ch, i + 1, parts, Append(cur, s[i]))

Split(s, ch) == splitAt(s, ch, 1, <<>>, <<>>)

\* path[strings.LastIndex(path, "/")+1:], or path when it has no slash
LastSegment(path) == LET parts == Split(path, "/") IN parts[Len(parts)]

\* strings.SplitN(s, ".", 2)[0]
BeforeDot(s) == Split(s, ".")[1]

importPathHasSegment(path, seg) ==
    IF seg = <<>> THEN FALSE
    ELSE \E i \in DOMAIN Split(path, "/") : Split(path, "/")[i] = seg

Lookup(f, k) == IF k \in DOMAIN f THEN f[k] ELSE <<>>

MapPut(m, k, v) == [x \in DOMAIN m \cup {k} |-> IF x = k THEN v ELSE m[x]]

S_main == <<"m","a","i","n">>

S_gopkg == <<"g","o","p","k","g",".","i","n","/">>

\* getPackageNameFromGoList: env.goList[path] is what `go list` printed for
\* the path, "" when the command failed or printed nothing
getPackageNameFromGoList(env, importPath) ==
    LET name == Lookup(env.goList, importPath)
    IN  IF name # <<>> /\ name # S_main THEN name ELSE <<>>

\* readPackageNameFromImportPath: env.modCache[path] is the package clause
\* found for the path in the module cache, "" when none is found
readPackageNameFromImportPath(env, importPath) == Lookup(env.modCache, importPath)

\* readPackageName of a directory of this module: env.local[dir] for the
\* directory dir below moduleDir ("" is moduleDir itself), "" when the
\* directory has no readable .go file
readPackageName(env, pkgDir) == Lookup(env.local, pkgDir)

\* the body of the loop of buildImportIndex for one import declaration
indexImport(env, idx, imp) ==
    LET path  == imp.path
        ident == IF imp.name # <<>> THEN imp.name ELSE LastSegment(path)
        isLocal == env.moduleDir /\ env.modulePath # <<>>
                   /\ HasPrefix(path, env.modulePath)
        realName ==
            IF isLocal
            THEN LET rel == TrimPrefix(TrimPrefix(path, env.modulePath), <<"/">>)
                 IN  IF readPackageName(env, rel) # <<>>
                     THEN readPackageName(env, rel) ELSE ident
            ELSE IF getPackageNameFromGoList(env, path) # <<>>
                 THEN getPackageNameFromGoList(env, path)
            ELSE IF readPackageNameFromImportPath(env, path) # <<>>
                 THEN readPackageNameFromImportPath(env, path)
            ELSE ident
        idx1 == MapPut(idx, ident, [Path |-> path, Name |-> realName])
    IN  IF ident = <<"_">> \/ ident = <<".">> THEN idx
        ELSE IF ident # realName
                /\ (realName \notin DOMAIN idx1 \/ idx1[realName].Path = <<>>)
        THEN MapPut(idx1, realName, [Path |-> path, Name |-> realName])
        ELSE idx1

RECURSIVE buildImportIndexFrom(_, _, _, _)
buildImportIndexFrom(env, imports, i, idx) ==
    IF i > Len(imports) THEN idx
    ELSE buildImportIndexFrom(env, imports, i + 1, indexImport(env, idx, imports[i]))

\* buildImportIndex: ident or true name -> [Path, Name]
buildImportIndex(env, imports) == buildImportIndexFrom(env, imports, 1, <<>>)

Pkg(path, name) == <<[Path |-> path, Name |-> name, Alias |-> <<>>]>>

TI(typeName, pkg) == [typeName |-> typeName, pkg |-> pkg]

\* extractTypeInfo on a qualified name spelling the type with the true name
\* of the package in place of the identifier written in the source
selectorTypeInfo_trueNameSpelling(x, sel, idx) ==
    IF x \in DOMAIN idx
    THEN { TI(idx[x].Name \o <<".">> \o sel, Pkg(idx[x].Path, idx[x].Name)) }
    ELSE { TI(x \o <<".">> \o sel, Pkg(<<>>, x)) }

\* extractTypeInfo on a qualified name x.sel whose x is an identifier
selectorTypeInfo(x, sel, idx) ==
    LET vals     == { idx[k] : k \in DOMAIN idx }
        qual     == x \o <<".">> \o sel
        named    == { imp \in vals : imp.Name = x }
        withPath == { imp \in named : imp.Path # <<>> }
        best     == IF withPath # {} THEN withPath ELSE named
        bySeg    == { imp \in vals : importPathHasSegment(imp.Path, x)
                                     /\ imp.Path # <<>> }
    IN  IF x \in DOMAIN idx
        THEN IF idx[x].Path = <<>>
             THEN { TI(sel, Pkg(idx[x].Path, idx[x].Name)) }
             ELSE { TI(qual, Pkg(idx[x].Path, idx[x].Name)) }
        ELSE IF best # {}
        THEN { IF imp.Path = <<>> THEN TI(sel, Pkg(imp.Path, imp.Name))
                                  ELSE TI(qual, Pkg(imp.Path, imp.Name))
               : imp \in best }
        ELSE IF bySeg # {}
        THEN { TI(qual, Pkg(imp.Path, imp.Name)) : imp \in bySeg }
        ELSE { TI(qual, Pkg(<<>>, x)) }

S_map == <<"m","a","p","[">>

S_chan == <<"c","h","a","n"," ">>

S_chanSend == <<"c","h","a","n","<","-"," ">>

S_chanRecv == <<"<","-","c","h","a","n"," ">>

S_func == <<"f","u","n","c">>

S_interface == <<"i","n","t","e","r","f","a","c","e","{","}">>

S_struct == <<"s","t","r","u","c","t","{","}">>

\* the type names of a list of type arguments, one choice per argument
RECURSIVE indexTypeNames(_, _)
\* extractTypeInfo: the possible (typeName, pkg) of a type expression
RECURSIVE extractTypeInfo(_, _)
extractTypeInfo(t, idx) ==
    CASE t.k = "Ident" -> { TI(t.name, <<>>) }
      [] t.k = "Selector" -> selectorTypeInfo(t.x, t.sel, idx)
      [] t.k = "Array" ->
           { TI(<<"[","]">> \o e.typeName, e.pkg) : e \in extractTypeInfo(t.elt, idx) }
      [] t.k = "Map" ->
           { TI(S_map \o kv[1].typeName \o <<"]">> \o kv[2].typeName, kv[2].pkg)
             : kv \in extractTypeInfo(t.key, idx) \X extractTypeInfo(t.value, idx) }
      [] t.k = "Star" ->
           { TI(<<"*">> \o e.typeName, e.pkg) : e \in extractTypeInfo(t.x, idx) }
      [] t.k = "Chan" ->
           { TI((CASE t.dir = "SEND" -> S_chanSend
                   [] t.dir = "RECV" -> S_chanRecv
                   [] OTHER -> S_chan) \o e.typeName, e.pkg)
             : e \in extractTypeInfo(t.value, idx) }
      [] t.k = "Func" -> { TI(S_func, <<>>) }
      [] t.k = "Interface" -> { TI(S_interface, <<>>) }
      [] t.k = "Struct" -> { TI(S_struct, <<>>) }
      [] t.k = "Index" ->
           { TI(bi[1].typeName \o <<"[">> \o bi[2].typeName \o <<"]">>, bi[1].pkg)
             : bi \in extractTypeInfo(t.x, idx) \X extractTypeInfo(t.index, idx) }
      [] t.k = "IndexList" ->
           { TI(bn[1].typeName \o <<"[">> \o Join(bn[2], <<",", " ">>) \o <<"]">>,
                bn[1].pkg)
             : bn \in extractTypeInfo(t.x, idx) \X indexTypeNames(t.indices, idx) }
      [] OTHER -> { TI(<<>>, <<>>) }

indexTypeNames(indices, idx) ==
    IF indices = <<>> THEN { <<>> }
    ELSE { <<hn[1].typeName>> \o hn[2]
           : hn \in extractTypeInfo(indices[1], idx)
                    \X indexTypeNames(Tail(indices), idx) }

NoPath(pkg) == pkg = <<>> \/ pkg[1].Path = <<>>

\* createValueOutput, after extractTypeInfo gave (typeName, pkg0): the
\* possible ValueOutputs (<<>> is nil)
valueOutputsFor(env, fieldName, packageName, idx, typeName, pkg0) ==
    LET vals == { idx[k] : k \in DOMAIN idx }
        \* "last chance": an entry with the same name that has a path
        sameName == IF pkg0 # <<>>
                    THEN { imp \in vals : imp.Name = pkg0[1].Name /\ imp.Path # <<>> }
                    ELSE {}
        pkgs1 == IF pkg0 # <<>> /\ pkg0[1].Path = <<>> /\ pkg0[1].Name # <<>>
                    /\ sameName # {}
                 THEN { Pkg(imp.Path, imp.Name) : imp \in sameName }
                 ELSE { pkg0 }
        \* the selector's package name, looked up by name, then by key
        pkgName == BeforeDot(typeName)
        byName  == { imp \in vals : imp.Name = pkgName /\ imp.Path # <<>> }
        byKey   == { k \in DOMAIN idx :
                       /\ Contains(k, pkgName) /\ idx[k].Path # <<>>
                       /\ (Contains(idx[k].Path, pkgName)
                           \/ importPathHasSegment(idx[k].Path, pkgName)) }
        keyName(k) ==
            IF Contains(idx[k].Name, <<".">>)
            THEN IF getPackageNameFromGoList(env, idx[k].Path) # <<>>
                 THEN getPackageNameFromGoList(env, idx[k].Path)
                 ELSE IF HasPrefix(idx[k].Path, S_gopkg)
                 THEN Split(TrimPrefix(idx[k].Path, S_gopkg), ".")[1]
                 ELSE idx[k].Name
            ELSE idx[k].Name
        pkgs2(p1) ==
            IF NoPath(p1) /\ Contains(typeName, <<".">>)
            THEN IF byName # {}
                 THEN { Pkg(imp.Path, imp.Name) : imp \in byName }
                 ELSE IF byKey # {}
                 THEN { Pkg(idx[k].Path, keyName(k)) : k \in byKey }
                 ELSE { p1 }
            ELSE { p1 }
        final == UNION { pkgs2(p1) : p1 \in pkgs1 }
    IN  { <<[FieldName |-> fieldName,
             TypeName |-> typeName,
             TypePackage |-> IF p # <<>> THEN p[1]
                             ELSE [Path |-> <<>>, Name |-> packageName,
                                   Alias |-> <<>>]]>>
          : p \in final }

\* createValueOutput: field.Type is never nil in a parsed file
createValueOutput(env, type, fieldName, packageName, idx) ==
    UNION { IF ti.typeName = <<>> THEN { <<>> }
            ELSE valueOutputsFor(env, fieldName, packageName, idx,
                                 ti.typeName, ti.pkg)
            : ti \in extractTypeInfo(type, idx) }

---------------------------------------------------------------------------
(* The Model aggregate (the Model Aggregator).                             *)

\* NewModel
NewModel ==
    [Packages |-> <<>>, FilesScanned |-> 0, PackagesFound |-> 0,
     StructsFound |-> 0, FieldsFound |-> 0, Errors |-> <<>>]

\* Model.AddError
AddError(m, file, line, message) ==
    [m EXCEPT !.Errors = Append(@, [File |-> file, Line |-> line,
                                    Message |-> message])]

\* the iteration orders of a range over a map with the keys S
Orders(S) ==
    { o \in [1..Cardinality(S) -> S] :
        \A i, j \in 1..Cardinality(S) : i # j => o[i] # o[j] }

\* the range over pkg.Imports comparing the names only, not the aliases
RECURSIVE aliasLoop_nameOnly(_, _, _, _, _, _, _)
aliasLoop_nameOnly(imports, curPath, name, order, i, a, deeper) ==
    IF i > Len(order) THEN { a }
    ELSE IF imports[order[i]].Path # curPath /\ imports[order[i]].Name = name
    THEN UNION { aliasLoop_nameOnly(imports, curPath, name, order, i + 1, a2,
                                    deeper)
                 : a2 \in deeper }
    ELSE aliasLoop_nameOnly(imports, curPath, name, order, i + 1, a, deeper)

\* the range over pkg.Imports comparing the aliases only, not the names
RECURSIVE aliasLoop_aliasOnly(_, _, _, _, _, _, _)
aliasLoop_aliasOnly(imports, curPath, name, order, i, a, deeper) ==
    IF i > Len(order) THEN { a }
    ELSE IF imports[order[i]].Path # curPath /\ imports[order[i]].Alias = name
    THEN UNION { aliasLoop_aliasOnly(imports, curPath, name, order, i + 1, a2,
                                     deeper)
                 : a2 \in deeper }
    ELSE aliasLoop_aliasOnly(imports, curPath, name, order, i + 1, a, deeper)

\* one range over pkg.Imports in setRecursiveAlias, from position i of the
\* iteration order on: a is currentImport.Alias, deeper the aliases the
\* recursive call (on "_" + name) can leave
RECURSIVE aliasLoop(_, _, _, _, _, _, _)
aliasLoop(imports, curPath, name, order, i, a, deeper) ==
    IF i > Len(order) THEN { a }
    ELSE IF imports[order[i]].Path # curPath
            /\ (imports[order[i]].Name = name \/ imports[order[i]].Alias = name)
    THEN UNION { aliasLoop(imports, curPath, name, order, i + 1, a2, deeper)
                 : a2 \in deeper }
    ELSE aliasLoop(imports, curPath, name, order, i + 1, a, deeper)

\* setRecursiveAlias without the recursive call: one underscore at most
setRecursiveAlias_oneLevel(imports, curPath, name, a) ==
    IF \E p \in DOMAIN imports :
          /\ imports[p].Path # curPath
          /\ (imports[p].Name = name \/ imports[p].Alias = name)
    THEN { <<"_">> \o name }
    ELSE { a }

\* setRecursiveAlias(pkg, currentImport, currentNameOrAlias, level): the
\* aliases it can leave in currentImport, over all iteration orders
RECURSIVE setRecursiveAlias(_, _, _, _)
setRecursiveAlias(imports, curPath, name, a) ==
    LET hit    == \E p \in DOMAIN imports :
                      /\ imports[p].Path # curPath
                      /\ (imports[p].Name = name \/ imports[p].Alias = name)
        \* the call is made only from a colliding entry of the range
        deeper == IF hit
                  THEN setRecursiveAlias(imports, curPath, <<"_">> \o name,
                                         <<"_">> \o name)
                  ELSE {}
    IN  UNION { aliasLoop(imports, curPath, name, order, 1, a, deeper)
                : order \in Orders(DOMAIN imports) }

\* the loop of AddStruct over the returns of getter gi from return ri on.
\* st = [imports, getters, log]: the package's Imports, the struct's getters
\* (the registered TypePackageOutput is the object the return points to, so
\* the alias shows in both) and the registration order (ghost).
RECURSIVE addReturns(_, _, _)
addReturns(st, gi, ri) ==
    IF gi > Len(st.getters) THEN { st }
    ELSE IF ri > Len(st.getters[gi].Returns) THEN addReturns(st, gi + 1, 1)
    ELSE LET r == st.getters[gi].Returns[ri]
         IN  IF r.Value # <<>> /\ r.Value[1].TypePackage.Path \notin DOMAIN st.imports
             THEN LET tp   == r.Value[1].TypePackage
                      imps == MapPut(st.imports, tp.Path, tp)
                  IN  UNION {
                        addReturns(
                          [imports |-> [imps EXCEPT ![tp.Path].Alias = a],
                           getters |-> [st.getters EXCEPT
                              ![gi].Returns[ri].Value[1].TypePackage.Alias = a],
                           log |-> Append(st.log, tp.Path)],
                          gi, ri + 1)
                        : a \in setRecursiveAlias(imps, tp.Path, tp.Name, tp.Alias) }
             ELSE addReturns(st, gi, ri + 1)

\* Model.AddStruct making a fresh package entry on every call
addStructRuns_replacePackage(m, packagePath, packageName, structModel) ==
    LET isNew == packagePath \notin DOMAIN m.Packages
        pkg0  == [Name |-> packageName, Path |-> packagePath,
                  Imports |-> <<>>, Structs |-> <<>>]
    IN  { [m |-> [m EXCEPT
                    !.Packages = MapPut(@, packagePath,
                        [pkg0 EXCEPT
                           !.Imports = st.imports,
                           !.Structs = Append(@, [structModel EXCEPT
                                                    !.Getters = st.getters])]),
                    !.PackagesFound = IF isNew THEN @ + 1 ELSE @,
                    !.StructsFound = @ + 1],
           log |-> st.log]
          : st \in addReturns([imports |-> pkg0.Imports,
                               getters |-> structModel.Getters,
                               log |-> <<>>], 1, 1) }

\* Model.AddStruct: the possible results [m, log], m the model after the
\* call and log the import paths it registered, in order (ghost)
addStructRuns(m, packagePath, packageName, structModel) ==
    LET isNew == packagePath \notin DOMAIN m.Packages
        pkg0  == IF isNew
                 THEN [Name |-> packageName, Path |-> packagePath,
                       Imports |-> <<>>, Structs |-> <<>>]
                 ELSE m.Packages[packagePath]
    IN  { [m |-> [m EXCEPT
                    !.Packages = MapPut(@, packagePath,
                        [pkg0 EXCEPT
                           !.Imports = st.imports,
                           !.Structs = Append(@, [structModel EXCEPT
                                                    !.Getters = st.getters])]),
                    !.PackagesFound = IF isNew THEN @ + 1 ELSE @,
                    !.StructsFound = @ + 1],
           log |-> st.log]
          : st \in addReturns([imports |-> pkg0.Imports,
                               getters |-> structModel.Getters,
                               log |-> <<>>], 1, 1) }

---------------------------------------------------------------------------
(* scanFile (the Declaration Scanner and the Getter Assembler).            *)
(* ctx = [c, env, idx, packageName, file]: the config, the environment,    *)
(* the file's import index, its package clause and the file.  acc is the   *)
(* struct being built: sm (the StructModel) and the four caches.  The      *)
(* component "ghost" of an output names the field and the element or       *)
(* getter it was made for; the code has no such component and nothing in   *)
(* the model reads it.                                                     *)

S_value == <<":","v","a","l","u","e">>

ReturnOutput(kind, out) ==
    [Field    |-> IF kind = "Field" THEN <<out>> ELSE <<>>,
     Constant |-> IF kind = "Constant" THEN <<out>> ELSE <<>>,
     None     |-> IF kind = "None" THEN <<out>> ELSE <<>>,
     Value    |-> IF kind = "Value" THEN <<out>> ELSE <<>>]

\* the body of the loop over b.config.Elements, for element ei and one name
scanElement(ctx, acc, fieldName, tags, ei) ==
    LET el    == ctx.c.Elements[ei]
        value == computeElementValue(fieldName, tags, el)
        fmt   == el.Output.Format
        key   == <<fieldName, el.Name>>
    IN  IF value = <<>> THEN acc
        ELSE CASE el.Output.Mode = "constant" ->
               LET cn == [Name  |-> buildName(fmt.Prefix, acc.sm.Name, fieldName,
                                              fmt.Suffix, fmt.Struct),
                          Value |-> value,
                          ghost |-> [field |-> fieldName, elem |-> ei]]
               IN  [acc EXCEPT !.sm.Constants = Append(@, cn),
                               !.constBy = MapPut(@, key, cn)]
          [] el.Output.Mode = "struct" ->
               LET isNew == el.Name \notin DOMAIN acc.structBy
                   so    == [Name    |-> buildName(fmt.Prefix, acc.sm.Name, <<>>,
                                                   fmt.Suffix, fmt.Struct),
                             Package |-> ctx.packageName,
                             Fields  |-> <<>>]
                   structs == IF isNew THEN Append(acc.sm.Structs, so)
                              ELSE acc.sm.Structs
                   k     == IF isNew THEN Len(structs) ELSE acc.structBy[el.Name]
                   fo    == [StructName |-> structs[k].Name,
                             Name  |-> buildName(<<>>, fieldName, <<>>, <<>>,
                                                 fmt.Holder),
                             Value |-> value,
                             ghost |-> [field |-> fieldName, elem |-> ei]]
               IN  [acc EXCEPT
                      !.sm.Structs = [structs EXCEPT ![k].Fields = Append(@, fo)],
                      !.structBy = MapPut(@, el.Name, k),
                      !.fieldBy = MapPut(@, key, fo)]
          [] el.Output.Mode = "none" ->
               [acc EXCEPT !.noneBy =
                   MapPut(@, key, [Name |-> fieldName, Value |-> value])]
          [] OTHER -> acc

RECURSIVE scanElements(_, _, _, _, _)
scanElements(ctx, acc, fieldName, tags, ei) ==
    IF ei > Len(ctx.c.Elements) THEN acc
    ELSE scanElements(ctx, scanElement(ctx, acc, fieldName, tags, ei),
                      fieldName, tags, ei + 1)

\* the loop over g.Returns from return i on; st = [returns, noneBy]
RECURSIVE buildReturns(_, _, _, _, _, _, _)
buildReturns(ctx, acc, field, fieldName, rets, i, st) ==
    IF i > Len(rets) THEN { st }
    ELSE LET ret == rets[i]
             key == <<fieldName, ret>>
         IN  IF HasPrefix(ret, <<":">>)
             THEN IF ret = S_value
                  THEN UNION {
                         buildReturns(ctx, acc, field, fieldName, rets, i + 1,
                           IF vo # <<>>
                           THEN [st EXCEPT !.returns =
                                   Append(@, ReturnOutput("Value", vo[1]))]
                           ELSE st)
                         : vo \in createValueOutput(ctx.env, field.type, fieldName,
                                                    ctx.packageName, ctx.idx) }
                  ELSE buildReturns(ctx, acc, field, fieldName, rets, i + 1, st)
             ELSE IF key \in DOMAIN acc.constBy
             THEN buildReturns(ctx, acc, field, fieldName, rets, i + 1,
                    [st EXCEPT !.returns =
                       Append(@, ReturnOutput("Constant", acc.constBy[key]))])
             ELSE IF key \in DOMAIN st.noneBy
             THEN buildReturns(ctx, acc, field, fieldName, rets, i + 1,
                    [returns |-> Append(st.returns,
                        ReturnOutput("None", [st.noneBy[key] EXCEPT !.Name = ret])),
                     noneBy |-> [st.noneBy EXCEPT ![key].Name = ret]])
             ELSE IF key \in DOMAIN acc.fieldBy
             THEN buildReturns(ctx, acc, field, fieldName, rets, i + 1,
                    [st EXCEPT !.returns =
                       Append(@, ReturnOutput("Field", acc.fieldBy[key]))])
             ELSE buildReturns(ctx, acc, field, fieldName, rets, i + 1, st)

\* the getter loop keeping a getter as soon as it has one return
RECURSIVE scanGetters_partial(_, _, _, _, _)
scanGetters_partial(ctx, acc, field, fieldName, gi) ==
    IF gi > Len(ctx.c.Getters) THEN { acc }
    ELSE LET g == ctx.c.Getters[gi]
             name == buildName(g.Output.Prefix, fieldName, g.Output.Suffix, <<>>,
                               g.Output.Format)
         IN  UNION {
               scanGetters_partial(ctx,
                 IF Len(st.returns) > 0
                 THEN [acc EXCEPT
                         !.sm.Getters = Append(@,
                            [Name |-> name, Returns |-> st.returns,
                             ghost |-> [field |-> fieldName, getter |-> gi]]),
                         !.noneBy = st.noneBy]
                 ELSE [acc EXCEPT !.noneBy = st.noneBy],
                 field, fieldName, gi + 1)
               : st \in buildReturns(ctx, acc, field, fieldName, g.Returns, 1,
                                     [returns |-> <<>>, noneBy |-> acc.noneBy]) }

\* the loop over b.config.Getters from getter gi on, for one name
RECURSIVE scanGetters(_, _, _, _, _)
scanGetters(ctx, acc, field, fieldName, gi) ==
    IF gi > Len(ctx.c.Getters) THEN { acc }
    ELSE LET g == ctx.c.Getters[gi]
             name == buildName(g.Output.Prefix, fieldName, g.Output.Suffix, <<>>,
                               g.Output.Format)
         IN  UNION {
               scanGetters(ctx,
                 IF Len(st.returns) = Len(g.Returns)
                 THEN [acc EXCEPT
                         !.sm.Getters = Append(@,
                            [Name |-> name, Returns |-> st.returns,
                             ghost |-> [field |-> fieldName, getter |-> gi]]),
                         !.noneBy = st.noneBy]
                 ELSE [acc EXCEPT !.noneBy = st.noneBy],
                 field, fieldName, gi + 1)
               : st \in buildReturns(ctx, acc, field, fieldName, g.Returns, 1,
                                     [returns |-> <<>>, noneBy |-> acc.noneBy]) }

\* the loop over field.Names from name ni on
RECURSIVE scanNames(_, _, _, _)
scanNames(ctx, acc, field, ni) ==
    IF ni > Len(field.names) THEN { acc }
    ELSE UNION { scanNames(ctx, a, field, ni + 1)
                 : a \in scanGetters(ctx,
                           scanElements(ctx, acc, field.names[ni], field.tag, 1),
                           field, field.names[ni], 1) }

\* the loop over structType.Fields.List from field fi on
RECURSIVE scanFields(_, _, _, _)
scanFields(ctx, acc, fields, fi) ==
    IF fi > Len(fields) THEN { acc }
    ELSE IF Len(fields[fi].names) = 0 \/ ~mustIncludeField(ctx.c, fields[fi])
    THEN scanFields(ctx, acc, fields, fi + 1)
    ELSE UNION { scanFields(ctx, a, fields, fi + 1)
                 : a \in scanNames(ctx, acc, fields[fi], 1) }

\* extractPackagePath: the directory of the file
extractPackagePath(file) == file.dir

S_bothDirectives == "struct has both include and exclude directives"

\* the struct step without the test that the struct model has an output
scanStruct_keepEmpty(ctx, m, decl) ==
    LET inc == mustIncludeStruct(ctx.c, decl)
        m1  == IF inc.error
               THEN AddError(m, ctx.file.path, decl.line, S_bothDirectives)
               ELSE m
        acc0 == [sm |-> [Name |-> decl.name, File |-> ctx.file.path,
                         LineNumber |-> decl.line, Constants |-> <<>>,
                         Structs |-> <<>>, Getters |-> <<>>],
                 constBy |-> <<>>, noneBy |-> <<>>,
                 structBy |-> <<>>, fieldBy |-> <<>>]
    IN  IF ~inc.include THEN { m1 }
        ELSE UNION {
               { r.m : r \in addStructRuns(m1, extractPackagePath(ctx.file),
                                            ctx.packageName, a.sm) }
               : a \in scanFields(ctx, acc0, decl.fields, 1) }

\* the part of scanFile that handles one struct type declaration
scanStruct(ctx, m, decl) ==
    LET inc == mustIncludeStruct(ctx.c, decl)
        m1  == IF inc.error
               THEN AddError(m, ctx.file.path, decl.line, S_bothDirectives)
               ELSE m
        acc0 == [sm |-> [Name |-> decl.name, File |-> ctx.file.path,
                         LineNumber |-> decl.line, Constants |-> <<>>,
                         Structs |-> <<>>, Getters |-> <<>>],
                 constBy |-> <<>>, noneBy |-> <<>>,
                 structBy |-> <<>>, fieldBy |-> <<>>]
    IN  IF ~inc.include THEN { m1 }
        ELSE UNION {
               IF Len(a.sm.Constants) > 0 \/ Len(a.sm.Structs) > 0
                  \/ Len(a.sm.Getters) > 0
               THEN { r.m : r \in addStructRuns(m1, extractPackagePath(ctx.file),
                                                ctx.packageName, a.sm) }
               ELSE { m1 }
               : a \in scanFields(ctx, acc0, decl.fields, 1) }

\* ast.Inspect over the file's struct type declarations, from decl i on
RECURSIVE scanDecls(_, _, _, _)
scanDecls(ctx, m, decls, i) ==
    IF i > Len(decls) THEN { m }
    ELSE UNION { scanDecls(ctx, m2, decls, i + 1)
                 : m2 \in scanStruct(ctx, m, decls[i]) }

S_parseFailed == "failed to parse file"

\* scanFile leaving a file that does not parse without a trace
scanFile_silentParseError(c, env, m, file) ==
    LET m1  == [m EXCEPT !.FilesScanned = @ + 1]
        ctx == [c |-> c, env |-> env, file |-> file,
                idx |-> buildImportIndex(env, file.imports),
                packageName |-> file.pkgName]
    IN  IF ~file.parses THEN { m1 }
        ELSE scanDecls(ctx, m1, file.decls, 1)

\* scanFile: the models it can leave (it always returns nil)
scanFile(c, env, m, file) ==
    LET m1  == [m EXCEPT !.FilesScanned = @ + 1]
        ctx == [c |-> c, env |-> env, file |-> file,
                idx |-> buildImportIndex(env, file.imports),
                packageName |-> file.pkgName]
    IN  IF ~file.parses
        THEN { AddError(m1, file.path, file.errLine, S_parseFailed) }
        ELSE scanDecls(ctx, m1, file.decls, 1)

---------------------------------------------------------------------------
(* findFiles (the Source Walker).                                          *)
(* tree.entries maps each path under Input.Dir to its facts: isDir,        *)
(* goSuffix (the name ends in ".go") and clause (the package name a        *)
(* PackageClauseOnly parse gives, "" when that parse fails).  A pattern is *)
(* "package:NAME" ([kind |-> "package", name]) or a glob ([kind |->        *)
(* "glob", valid, matches]): valid is whether doublestar accepts its       *)
(* syntax, matches the paths doublestar.Glob returns for it on this tree.  *)

\* findPackageFiles: filepath.Walk over Input.Dir; tree.walkErr is the error
\* of the walk (an unreadable directory)
findPackageFiles(tree, packageName) ==
    [err |-> tree.walkErr,
     paths |-> { p \in DOMAIN tree.entries :
                   /\ ~tree.entries[p].isDir
                   /\ tree.entries[p].goSuffix
                   /\ tree.entries[p].clause # <<>>
                   /\ tree.entries[p].clause = packageName }]

\* expandPattern taking a glob that doublestar rejects for one that matches
\* nothing
expandPattern_ignoreBadGlob(tree, pattern) ==
    IF pattern.kind = "package" THEN findPackageFiles(tree, pattern.name)
    ELSE [err |-> FALSE,
          paths |-> { p \in pattern.matches : tree.entries[p].goSuffix }]

\* expandPattern failing on a valid glob that matches no .go file
expandPattern_emptyGlobFails(tree, pattern) ==
    IF pattern.kind = "package" THEN findPackageFiles(tree, pattern.name)
    ELSE IF ~pattern.valid THEN [err |-> TRUE, paths |-> {}]
    ELSE [err |-> { p \in pattern.matches : tree.entries[p].goSuffix } = {},
          paths |-> { p \in pattern.matches : tree.entries[p].goSuffix }]

\* expandPattern
expandPattern(tree, pattern) ==
    IF pattern.kind = "package" THEN findPackageFiles(tree, pattern.name)
    ELSE IF ~pattern.valid THEN [err |-> TRUE, paths |-> {}]
    ELSE [err |-> FALSE,
          paths |-> { p \in pattern.matches : tree.entries[p].goSuffix }]

\* the loop of findFiles over Input.Exclude from pattern i on
RECURSIVE excludeLoop(_, _, _, _)
excludeLoop(tree, patterns, i, mustExclude) ==
    IF i > Len(patterns) THEN [err |-> FALSE, paths |-> mustExclude]
    ELSE IF expandPattern(tree, patterns[i]).err THEN [err |-> TRUE, paths |-> {}]
    ELSE excludeLoop(tree, patterns, i + 1,
                     mustExclude \cup expandPattern(tree, patterns[i]).paths)

\* the loop of findFiles over Input.Include from pattern i on
RECURSIVE includeLoop(_, _, _, _, _)
includeLoop(tree, patterns, i, mustExclude, includeSet) ==
    IF i > Len(patterns) THEN [err |-> FALSE, paths |-> includeSet]
    ELSE IF expandPattern(tree, patterns[i]).err THEN [err |-> TRUE, paths |-> {}]
    ELSE includeLoop(tree, patterns, i + 1, mustExclude,
                     includeSet \cup (expandPattern(tree, patterns[i]).paths
                                      \ mustExclude))

\* findFiles: the error, or the keys of includeSet (the code appends them
\* in the order of a range over the map)
findFiles(c, tree) ==
    LET ex == excludeLoop(tree, c.Input.Exclude, 1, {})
    IN  IF ex.err THEN ex
        ELSE includeLoop(tree, c.Input.Include, 1, ex.paths, {})

---------------------------------------------------------------------------
(* The inputs of the model: configurations as NewConfig returns them       *)
(* (defaults set, validated), and source declarations.                     *)

SeqsUpTo(S, n) == UNION { [1..k -> S] : k \in 0..n }

SeqsFromTo(S, lo, n) == UNION { [1..k -> S] : k \in lo..n }

S_json == <<"j","s","o","n">>

S_fld == <<"f","l","d">>

S_get == <<"g","e","t">>

S_User == <<"U","s","e","r">>

S_user == <<"u","s","e","r">>

S_Ab == <<"A","b">>

S_cd == <<"c","d">>

S_aB == <<"a","B">>

S_gh == <<"g","h">>

S_Ef == <<"E","f">>

S_string == <<"s","t","r","i","n","g">>

S_m == <<"m">>

S_k == <<"k">>

S_st == <<"s","t">>

S_pathA == <<"a","/","s","t">>

\* an element after setDefaults: the prefix defaults to the element name
Element(name, inMode, priority, outMode, holder, struct, tagValues, vcase, vsep) ==
    [Name   |-> name,
     Input  |-> [Mode |-> inMode, TagPriority |-> priority],
     Output |-> [Mode |-> outMode,
                 Format |-> [Holder |-> holder, Struct |-> struct,
                             Prefix |-> name, Suffix |-> <<>>],
                 Transform |-> [TagValues |-> tagValues, ValueCase |-> vcase,
                                ValueSeparator |-> vsep]]]

\* a getter after setDefaults: the prefix defaults to the getter name
Getter(name, returns) ==
    [Name |-> name, Returns |-> returns,
     Output |-> [Prefix |-> name, Suffix |-> <<>>, Format |-> "pascal"]]

Config(se, su, fe, fu, include, exclude, elements, getters) ==
    [Input |-> [Include |-> include, Exclude |-> exclude,
                Struct |-> [Explicit |-> se, IncludeUnexported |-> su],
                Field  |-> [Explicit |-> fe, IncludeUnexported |-> fu]],
     Elements |-> elements,
     Getters  |-> getters]

TypeString == [k |-> "Ident", name |-> S_string]

Field(names, tag, type) == [names |-> names, tag |-> tag, type |-> type]

TagPair(key, value) == [key |-> key, value |-> value]

StructDecl(name, declDoc, specDoc, fields) ==
    [name |-> name, line |-> 3, declDoc |-> declDoc, specDoc |-> specDoc,
     fields |-> fields]

\* the environment of a file without a go.mod above it and without tools
NoEnv ==
    [moduleDir |-> FALSE, modulePath |-> <<>>, goList |-> <<>>,
     modCache |-> <<>>, local |-> <<>>]

---------------------------------------------------------------------------
(* Function-level runs: one application of one function of the builder to  *)
(* inputs drawn from the sets below; call records the function, the        *)
(* arguments and the result.                                               *)

DocChoices ==
    { <<>>, <<"//constago:include">>, <<"// constago:exclude">>,
      <<"// User is a user">>,
      <<"// see constago:include or constago:exclude">>,
      <<"//constago:include", "// constago:exclude">> }

FnStructDecls ==
    { StructDecl(n, dd, sd, <<>>) :
        n \in {S_User, S_user}, dd \in DocChoices, sd \in DocChoices }

FnFieldTags ==
    { <<>>,
      <<TagPair("constago", S_constagoInclude)>>,
      <<TagPair("constago", S_constagoExclude)>>,
      <<TagPair("constago", <<" ">>)>>,
      <<TagPair("constago", <<>>)>>,
      <<TagPair("constago", <<"x">>)>>,
      <<TagPair("json", <<"n">>)>>,
      <<TagPair("json", <<"n">>), TagPair("constago", S_constagoExclude)>>,
      <<TagPair("json", <<"n">>), TagPair("constago", S_constagoInclude)>> }

FnFields ==
    { Field(ns, t, TypeString) :
        ns \in { <<S_Ab>>, <<S_cd>>, <<S_Ab, S_cd>>, <<S_cd, S_Ab>> },
        t \in FnFieldTags }

FnTagValues == { <<"a","B">>, <<",","o">>, <<"a",",","o">>, <<" ">> }

FnTags ==
    SeqsUpTo({ TagPair(key, v) : key \in {"json", "xml"}, v \in FnTagValues },
             MaxTagPairs)

FnElements ==
    { Element(S_json, mode, prio, out, "pascal", "pascal", tv, ct[1], ct[2]) :
        mode \in {"tag", "field", "tagThenField"},
        prio \in { <<"json">>, <<"json", "xml">>, <<"xml", "json">> },
        out \in {"constant", "struct", "none"},
        tv \in BOOLEAN,
        ct \in { <<"asIs", <<>>>>, <<"upper", <<>>>>, <<"lower", <<"_">>>> } }

\* a: a file of package m, b: a file of package k, u: a .go file whose
\* package clause does not parse, n: a file that is no .go file, d: a
\* directory whose name ends in ".go"
FnEntries ==
    [a |-> [isDir |-> FALSE, goSuffix |-> TRUE, clause |-> S_m],
     b |-> [isDir |-> FALSE, goSuffix |-> TRUE, clause |-> S_k],
     u |-> [isDir |-> FALSE, goSuffix |-> TRUE, clause |-> <<>>],
     n |-> [isDir |-> FALSE, goSuffix |-> FALSE, clause |-> <<>>],
     d |-> [isDir |-> TRUE, goSuffix |-> TRUE, clause |-> <<>>]]

FnTrees == { [entries |-> FnEntries, walkErr |-> w] : w \in BOOLEAN }

Glob(matches) == [kind |-> "glob", valid |-> TRUE, matches |-> matches, name |-> <<>>]

BadGlob == [kind |-> "glob", valid |-> FALSE, matches |-> {}, name |-> <<>>]

PackagePattern(name) == [kind |-> "package", valid |-> TRUE, matches |-> {}, name |-> name]

FnPatterns ==
    { Glob({"a", "b", "u", "n", "d"}), Glob({"a", "b"}), BadGlob,
      PackagePattern(S_m), PackagePattern(S_k) }

FnInit ==
    /\ cfg = <<>>
    /\ fs = <<>>
    /\ pc = "call"
    /\ files = <<>>
    /\ model = NewModel
    /\ buildErr = FALSE
    /\ call = <<>>
    /\ hist = <<>>

Returned(fn, args, ret) ==
    /\ call' = [fn |-> fn, args |-> args, ret |-> ret]
    /\ pc' = "returned"
    /\ UNCHANGED <<cfg, fs, files, model, buildErr, hist>>

CallMustIncludeStruct ==
    /\ pc = "call"
    /\ \E se \in BOOLEAN, su \in BOOLEAN, decl \in FnStructDecls :
         LET c == Config(se, su, FALSE, FALSE, <<>>, <<>>, <<>>, <<>>)
         IN  Returned("mustIncludeStruct", [c |-> c, decl |-> decl],
                      mustIncludeStruct(c, decl))

CallMustIncludeField ==
    /\ pc = "call"
    /\ \E fe \in BOOLEAN, fu \in BOOLEAN, field \in FnFields :
         LET c == Config(FALSE, FALSE, fe, fu, <<>>, <<>>, <<>>, <<>>)
         IN  Returned("mustIncludeField", [c |-> c, field |-> field],
                      mustIncludeField(c, field))

\* the element step of scanFile for one name of one field, on a struct
\* that has no output yet: computeElementValue, then the switch on the
\* output mode
CallScanElement ==
    /\ pc = "call"
    /\ \E fieldName \in {S_aB}, tags \in FnTags, el \in FnElements :
         LET c   == Config(FALSE, FALSE, FALSE, FALSE, <<>>, <<>>, <<el>>, <<>>)
             ctx == [c |-> c, env |-> NoEnv, idx |-> <<>>, packageName |-> S_m,
                     file |-> <<>>]
             acc == [sm |-> [Name |-> S_User, File |-> "a", LineNumber |-> 3,
                             Constants |-> <<>>, Structs |-> <<>>,
                             Getters |-> <<>>],
                     constBy |-> <<>>, noneBy |-> <<>>,
                     structBy |-> <<>>, fieldBy |-> <<>>]
         IN  Returned("scanElement",
                      [fieldName |-> fieldName, tags |-> tags, el |-> el],
                      [value |-> computeElementValue(fieldName, tags, el),
                       acc |-> scanElement(ctx, acc, fieldName, tags, 1)])

CallFindFiles ==
    /\ pc = "call"
    /\ \E tree \in FnTrees,
          inc \in SeqsFromTo(FnPatterns, 1, MaxInclude),
          exc \in SeqsUpTo(FnPatterns, MaxExclude) :
         LET c == Config(FALSE, FALSE, FALSE, FALSE, inc, exc, <<>>, <<>>)
             r == findFiles(c, tree)
         IN  \E order \in Orders(r.paths) :
               Returned("findFiles", [c |-> c, tree |-> tree],
                        [err |-> r.err, files |-> order])

S_first_name == <<"f", "i", "r", "s", "t", "_", "n", "a", "m", "e">>

S_FirstName == <<"F", "i", "r", "s", "t", "N", "a", "m", "e">>

\* field names and tag values: every string of a lowercase letter, an
\* uppercase letter and a separator up to the bound, and two longer names
FnValues ==
    SeqsUpTo({"a", "B", "_"}, MaxValueLen) \cup {S_first_name, S_FirstName}

FnCases == {"asIs", "camel", "pascal", "upper", "lower"}

FnSeparators == { <<>>, <<"_">>, <<" ">> }

CallTransformFieldValue ==
    /\ pc = "call"
    /\ \E value \in FnValues, caseType \in FnCases, sep \in FnSeparators :
         Returned("transformFieldValue",
                  [value |-> value, caseType |-> caseType, sep |-> sep],
                  transformFieldValue(value, caseType, sep))

\* the parts of a name: an element name, struct names, field names and a
\* suffix, among them one-letter names and names with inner capitals
FnPrefixes == { <<>>, <<"j", "s">> }

FnMids == { <<"U", "s">>, <<"T">>, <<"a", "B">> }

FnMid2s ==
    { <<>>, <<"A", "b">>, <<"N">>, <<"a", "_", "b">>, <<"I", "D">>,
      <<"a", "2", "B">> }

FnSuffixes == { <<>>, <<"x">> }

FnFormats == {"camel", "pascal", "snake", "snakeUpper"}

\* buildName on the parts, and buildName again on the name it returned
CallBuildName ==
    /\ pc = "call"
    /\ \E prefix \in FnPrefixes, mid \in FnMids, mid2 \in FnMid2s,
          suffix \in FnSuffixes, fmtType \in FnFormats :
         LET name == buildName(prefix, mid, mid2, suffix, fmtType)
         IN  Returned("buildName",
                      [prefix |-> prefix, mid |-> mid, mid2 |-> mid2,
                       suffix |-> suffix, fmtType |-> fmtType],
                      [name |-> name,
                       again |-> buildName(<<>>, name, <<>>, <<>>, fmtType)])

\* a file of two struct declarations with one tagged field each: one named
\* User or user with any doc comments on the declaration and on the spec,
\* and the struct Other without doc comments, before or after it
FnTaggedDecl(name, declDoc, specDoc, line) ==
    [StructDecl(name, declDoc, specDoc,
                <<Field(<<S_Ab>>, <<TagPair("json", <<"n">>)>>, TypeString)>>)
       EXCEPT !.line = line]

FnOtherDecl(line) == FnTaggedDecl(<<"O","t","h","e","r">>, <<>>, <<>>, line)

FnFileDecls ==
    { IF first THEN <<FnTaggedDecl(n, dd, sd, 3), FnOtherDecl(9)>>
               ELSE <<FnOtherDecl(3), FnTaggedDecl(n, dd, sd, 9)>> :
        n \in {S_User, S_user}, dd \in DocChoices, sd \in DocChoices,
        first \in BOOLEAN }

\* scanFile on a fresh model, for every setting of the struct flags and one
\* constant per field tagged json
CallScanFile ==
    /\ pc = "call"
    /\ \E se \in BOOLEAN, su \in BOOLEAN, decls \in FnFileDecls :
         LET c == Config(se, su, FALSE, FALSE, <<>>, <<>>,
                         <<Element(S_json, "tag", <<"json">>, "constant",
                                   "pascal", "pascal", FALSE, "asIs", <<>>)>>,
                         <<>>)
             file == [path |-> "a", dir |-> "p", pkgName |-> S_m,
                      parses |-> TRUE, errLine |-> 0, imports |-> <<>>,
                      decls |-> decls]
         IN  \E m2 \in scanFile(c, NoEnv, NewModel, file) :
                Returned("scanFile", [c |-> c, file |-> file], m2)

S_bn == <<"b","n">>

S_bs == <<"b","s">>

S_pathBs == <<"x","/","b","s">>

S_G == <<"G">>

\* the imports of a file: none, or the package a/st under its own name and
\* the package x/bs (package clause bs) under the alias bn
FnImportLists ==
    { <<>>,
      <<[path |-> S_pathA, name |-> <<>>], [path |-> S_pathBs, name |-> S_bn]>> }

\* the environment: nothing resolves an import, or go list names the
\* package of each import path
FnEnvs ==
    { NoEnv,
      [NoEnv EXCEPT !.goList = MapPut(MapPut(<<>>, S_pathA, S_st), S_pathBs, S_bs)] }

\* the names at the core of a type: string, st.User and bn.User
FnTypeNames ==
    { TypeString,
      [k |-> "Selector", x |-> S_st, sel |-> S_User],
      [k |-> "Selector", x |-> S_bn, sel |-> S_User] }

\* the field types with up to d wrappers: slices ([]T, len is ""),
\* arrays ([4]T), pointers, maps with a name as key, channels of the three
\* directions and instantiations G[T] and G[string, T].  A channel without
\* direction whose element is a receive channel needs parentheses in the
\* source and is an *ast.ParenExpr, it is not among them.
RECURSIVE FnTypes(_)
FnTypes(d) ==
    IF d = 0 THEN FnTypeNames
    ELSE LET inner == FnTypes(d - 1)
         IN  inner
             \cup { [k |-> "Array", len |-> l, elt |-> t] :
                      l \in { <<>>, <<"4">> }, t \in inner }
             \cup { [k |-> "Star", x |-> t] : t \in inner }
             \cup { [k |-> "Map", key |-> kt, value |-> t] :
                      kt \in { TypeString,
                               [k |-> "Selector", x |-> S_st, sel |-> S_User] },
                      t \in inner }
             \cup { [k |-> "Chan", dir |-> dir, value |-> t] :
                      dir \in {"SEND", "RECV"}, t \in inner }
             \cup { [k |-> "Chan", dir |-> "BOTH", value |-> t] :
                      t \in { u \in inner : ~(u.k = "Chan" /\ u.dir = "RECV") } }
             \cup { [k |-> "Index", x |-> [k |-> "Ident", name |-> S_G],
                     index |-> t] : t \in inner }
             \cup { [k |-> "IndexList", x |-> [k |-> "Ident", name |-> S_G],
                     indices |-> <<TypeString, t>>] : t \in inner }

\* createValueOutput for the field Ab of a file of package m
CallCreateValueOutput ==
    /\ pc = "call"
    /\ \E env \in FnEnvs, imports \in FnImportLists,
          type \in FnTypes(MaxTypeDepth) :
         \E out \in createValueOutput(env, type, S_Ab, S_m,
                                      buildImportIndex(env, imports)) :
            Returned("createValueOutput",
                     [env |-> env, imports |-> imports, type |-> type,
                      fieldName |-> S_Ab, packageName |-> S_m],
                     out)

\* scanFile on a fresh model for a file of package m or st, directory p,
\* that declares User with the fields Ef, a string, and Ab, under one
\* constant per field tagged json and one getter that returns the field's
\* value
CallScanFileValue ==
    /\ pc = "call"
    /\ \E env \in FnEnvs, imports \in FnImportLists,
          type \in FnTypes(MaxTypeDepth), pkgName \in { S_m, S_st } :
         LET c == Config(FALSE, FALSE, FALSE, FALSE, <<>>, <<>>,
                         <<Element(S_json, "tag", <<"json">>, "constant",
                                   "pascal", "pascal", FALSE, "asIs", <<>>)>>,
                         <<Getter(S_get, <<S_value>>)>>)
             file == [path |-> "a", dir |-> "p", pkgName |-> pkgName,
                      parses |-> TRUE, errLine |-> 0, imports |-> imports,
                      decls |-> <<StructDecl(S_User, <<>>, <<>>,
                                    <<Field(<<S_Ef>>, <<>>, TypeString),
                                      Field(<<S_Ab>>, <<>>, type)>>)>>]
         IN  \E m2 \in scanFile(c, env, NewModel, file) :
                Returned("scanFileValue",
                         [env |-> env, imports |-> imports, type |-> type,
                          packageName |-> pkgName], m2)

S_pathSub == <<"a","/","s","t","/","x">>

S_pathSibling == <<"a","/","s","t","x">>

S_lx == <<"l","x">>

\* the import paths of buildImportIndex: the module a/st itself, a package
\* below it, a module whose path only starts like it, and another module
FnImportPaths == { S_pathA, S_pathSub, S_pathSibling, S_pathBs }

\* what the strategies find: go list and the module cache name the package
\* of every import path G and bs, or nothing; the module's directory has
\* the package st and below it, in x, the package lx, or no .go file
FnModuleEnvs ==
    { [moduleDir |-> dir, modulePath |-> mp,
       goList   |-> IF gl THEN [p \in FnImportPaths |-> S_G] ELSE <<>>,
       modCache |-> IF mc THEN [p \in FnImportPaths |-> S_bs] ELSE <<>>,
       local    |-> IF lc THEN MapPut(MapPut(<<>>, <<>>, S_st), <<"x">>, S_lx)
                    ELSE <<>>]
      : dir \in BOOLEAN, mp \in { <<>>, S_pathA },
        gl \in BOOLEAN, mc \in BOOLEAN, lc \in BOOLEAN }

\* buildImportIndex for a file with one import declaration, with or
\* without the alias bn
CallBuildImportIndex ==
    /\ pc = "call"
    /\ \E env \in FnModuleEnvs, path \in FnImportPaths, name \in { <<>>, S_bn } :
         Returned("buildImportIndex",
                  [env |-> env, imports |-> <<[path |-> path, name |-> name]>>],
                  buildImportIndex(env, <<[path |-> path, name |-> name]>>))

FnNext ==
    \/ CallBuildImportIndex
    \/ CallScanFileValue
    \/ CallMustIncludeStruct
    \/ CallMustIncludeField
    \/ CallScanElement
    \/ CallFindFiles
    \/ CallTransformFieldValue
    \/ CallBuildName
    \/ CallScanFile
    \/ CallCreateValueOutput

SpecFn == FnInit /\ [][FnNext]_vars

---------------------------------------------------------------------------
(* Properties of the function-level runs.                                  *)

IncludeComments ==
    { "//constago:include", "// see constago:include or constago:exclude" }

ExcludeComments ==
    { "// constago:exclude", "// see constago:include or constago:exclude" }

\* C2: mustIncludeStruct, for every combination of struct.explicit,
\* struct.include_unexported and name visibility: with no directive it is
\* true iff explicit is off and (include_unexported is on or the name is
\* exported); with only the include directive it is true in every
\* combination; with only the exclude directive it is false in every
\* combination.
C2_StructInclusion ==
    (pc = "returned" /\ call.fn = "mustIncludeStruct") =>
        LET decl == call.args.decl
            s    == call.args.c.Input.Struct
            docs == decl.declDoc \o decl.specDoc
            hasInclude == \E i \in DOMAIN docs : docs[i] \in IncludeComments
            hasExclude == \E i \in DOMAIN docs : docs[i] \in ExcludeComments
            exported   == decl.name[1] \in Range(UpperLetters)
        IN  /\ (~hasInclude /\ ~hasExclude) =>
                 (call.ret.include <=>
                    (~s.Explicit /\ (s.IncludeUnexported \/ exported)))
            /\ (hasInclude /\ ~hasExclude) => call.ret.include
            /\ (hasExclude /\ ~hasInclude) => ~call.ret.include

\* an unexported struct under explicit mode with include_unexported off,
\* carrying only the include directive, was included
C2_Witness ==
    /\ pc = "returned"
    /\ call.fn = "mustIncludeStruct"
    /\ call.args.decl.name = S_user
    /\ call.args.decl.declDoc = <<"//constago:include">>
    /\ call.args.decl.specDoc = <<"// User is a user">>
    /\ call.args.c.Input.Struct.Explicit
    /\ ~call.args.c.Input.Struct.IncludeUnexported
    /\ call.ret.include

\* the constago tag of a field declaration as the field rules see it: its
\* value, and whether it is there (a blank value counts as no tag)
ConstagoTag(field) == TagGet(field.tag, "constago")

HasConstagoTag(field) == \E i \in DOMAIN ConstagoTag(field) : ConstagoTag(field)[i] # " "

C20_UnexportedFieldByTag ==
    (/\ pc = "returned"
     /\ call.fn = "mustIncludeField"
     /\ ~call.args.c.Input.Field.Explicit
     /\ ~call.args.c.Input.Field.IncludeUnexported
     /\ \A i \in DOMAIN call.args.field.names :
           call.args.field.names[i][1] \notin Range(UpperLetters)) =>
        LET field == call.args.field
        IN  /\ (HasConstagoTag(field) /\ ConstagoTag(field) # S_constagoExclude)
                 => call.ret = TRUE
            /\ ~HasConstagoTag(field) => call.ret = FALSE

\* whether a pattern matches the path p of the tree
PatternMatches(tree, pattern, p) ==
    IF pattern.kind = "package"
    THEN /\ ~tree.entries[p].isDir
         /\ tree.entries[p].goSuffix
         /\ tree.entries[p].clause # <<>>
         /\ tree.entries[p].clause = pattern.name
    ELSE pattern.valid /\ p \in pattern.matches

\* the .go files matched by at least one include and by no exclude pattern
ExpectedFiles(c, tree) ==
    { p \in DOMAIN tree.entries :
        /\ tree.entries[p].goSuffix
        /\ ~tree.entries[p].isDir
        /\ \E i \in DOMAIN c.Input.Include :
              PatternMatches(tree, c.Input.Include[i], p)
        /\ ~\E i \in DOMAIN c.Input.Exclude :
              PatternMatches(tree, c.Input.Exclude[i], p) }

\* no pattern of the configuration fails to expand
PatternsExpand(c, tree) ==
    \A i \in DOMAIN (c.Input.Include \o c.Input.Exclude) :
        LET pattern == (c.Input.Include \o c.Input.Exclude)[i]
        IN  IF pattern.kind = "package" THEN ~tree.walkErr ELSE pattern.valid

\* C4: findFiles returns, each exactly once, exactly the .go files that are
\* matched by at least one include pattern and by no exclude pattern; a file
\* matched by any exclude pattern is absent from the result whatever the
\* order of the patterns and whichever kind of include matched it.
C4_FindFiles ==
    (/\ pc = "returned"
     /\ call.fn = "findFiles"
     /\ PatternsExpand(call.args.c, call.args.tree)) =>
        /\ ~call.ret.err
        /\ Range(call.ret.files) = ExpectedFiles(call.args.c, call.args.tree)
        /\ Len(call.ret.files) = Cardinality(Range(call.ret.files))

\* the value the tag_priority list selects on the tags of a field: the
\* positions of the keys whose tag is there and not blank, and the value of
\* the first of them up to its first comma
PresentKeys(tags, priority) ==
    { i \in DOMAIN priority :
        \E j \in DOMAIN TagGet(tags, priority[i]) :
            TagGet(tags, priority[i])[j] # " " }

CutAtComma(v) ==
    SubSeq(v, 1, CHOOSE k \in 0..Len(v) :
                    /\ \A j \in 1..k : v[j] # ","
                    /\ k = Len(v) \/ v[k + 1] = ",")

ChosenTagValue(tags, el) ==
    LET present == PresentKeys(tags, el.Input.TagPriority)
        first   == CHOOSE i \in present : \A j \in present : i <= j
        raw     == CutAtComma(TagGet(tags, el.Input.TagPriority[first]))
    IN  IF el.Output.Transform.TagValues THEN applyTransform(raw, el) ELSE raw

\* the values of the constants, accessor fields and none-values of a struct
ArtifactValues(acc) ==
    { acc.sm.Constants[i].Value : i \in DOMAIN acc.sm.Constants }
    \cup UNION { { acc.sm.Structs[i].Fields[j].Value :
                     j \in DOMAIN acc.sm.Structs[i].Fields } :
                 i \in DOMAIN acc.sm.Structs }
    \cup { acc.noneBy[k].Value : k \in DOMAIN acc.noneBy }

\* C9: for an element in tagThenField mode every included named field gets
\* a non-empty value: the tag value chosen as in tag mode when that value is
\* non-empty, and otherwise the transformed field name, whether the field
\* has no tag at all, none of the priority tags, or a priority tag whose
\* part before the first comma is empty.
C9_TagThenFieldValue ==
    (/\ pc = "returned"
     /\ call.fn = "scanElement"
     /\ call.args.el.Input.Mode = "tagThenField") =>
        LET tags == call.args.tags
            el   == call.args.el
            byTag == IF PresentKeys(tags, el.Input.TagPriority) = {}
                     THEN <<>> ELSE ChosenTagValue(tags, el)
            expected == IF byTag # <<>> THEN byTag
                        ELSE applyTransform(call.args.fieldName, el)
        IN  /\ call.ret.value # <<>>
            /\ call.ret.value = expected
            /\ ArtifactValues(call.ret.acc) = {expected}

C11_TransformToggle ==
    (/\ pc = "returned"
     /\ call.fn = "scanElement") =>
        LET tags    == call.args.tags
            el      == call.args.el
            tr      == el.Output.Transform
            present == PresentKeys(tags, el.Input.TagPriority)
            first   == CHOOSE i \in present : \A j \in present : i <= j
            raw     == CutAtComma(TagGet(tags, el.Input.TagPriority[first]))
            fromTag == el.Input.Mode \in {"tag", "tagThenField"}
                       /\ present # {}
            fromName == \/ el.Input.Mode = "field"
                        \/ el.Input.Mode = "tagThenField" /\ present = {}
        IN  /\ (fromTag /\ ~tr.TagValues) => call.ret.value = raw
            /\ (fromTag /\ tr.TagValues) =>
                 call.ret.value =
                   transformFieldValue(raw, tr.ValueCase, tr.ValueSeparator)
            /\ fromName =>
                 call.ret.value =
                   transformFieldValue(call.args.fieldName, tr.ValueCase,
                                       tr.ValueSeparator)

\* the tag value aB of a tag-mode element with tag_values on, lower case and
\* the separator _ comes out as a_b
C11_Witness ==
    /\ pc = "returned"
    /\ call.fn = "scanElement"
    /\ call.args.el.Input.Mode = "tag"
    /\ call.args.el.Output.Transform.TagValues
    /\ call.args.el.Output.Transform.ValueCase = "lower"
    /\ call.args.tags = <<TagPair("json", <<"a", "B">>)>>
    /\ call.ret.value = <<"a", "_", "b">>

\* the words of a value as a reader of the transform rules counts them: a
\* word starts at a character that is no separator and that is the first
\* one, follows a separator, or is an uppercase letter following a
\* lowercase one; it runs up to the next separator or word start
WordStarts(v) ==
    { i \in DOMAIN v :
        /\ ~isSeparator(v[i])
        /\ \/ i = 1
           \/ isSeparator(v[i - 1])
           \/ IsUpper(v[i]) /\ IsLower(v[i - 1]) }

WordFrom(v, i) ==
    SubSeq(v, i, CHOOSE k \in i..Len(v) :
                   /\ \A j \in (i + 1)..k :
                        ~isSeparator(v[j]) /\ j \notin WordStarts(v)
                   /\ \/ k = Len(v)
                      \/ isSeparator(v[k + 1])
                      \/ (k + 1) \in WordStarts(v))

WordsOf(v) ==
    LET starts == WordStarts(v)
        order  == CHOOSE o \in [1..Cardinality(starts) -> starts] :
                    \A i, j \in 1..Cardinality(starts) :
                       i < j => o[i] < o[j]
    IN  [i \in 1..Cardinality(starts) |-> WordFrom(v, order[i])]

WordInCase(w, caseType) ==
    CASE caseType = "pascal" -> <<ToUpperCh(w[1])>> \o ToLower(Tail(w))
      [] caseType = "upper" -> ToUpper(w)
      [] caseType = "lower" -> ToLower(w)
      [] OTHER -> w

\* C12: with a non-empty separator and the case pascal, upper or lower,
\* transformFieldValue gives the words of the value, each put in that case,
\* joined by the separator.
C12_TransformWords ==
    (/\ pc = "returned"
     /\ call.fn = "transformFieldValue"
     /\ call.args.sep # <<>>
     /\ call.args.caseType \in {"pascal", "upper", "lower"}) =>
        LET ws == WordsOf(call.args.value)
        IN  call.ret =
              Join([i \in DOMAIN ws |-> WordInCase(ws[i], call.args.caseType)],
                   call.args.sep)

AdjacentCapitals(n) ==
    \E i \in 1..(Len(n) - 1) : IsUpper(n[i]) /\ IsUpper(n[i + 1])

StructModelsOf(m) ==
    UNION { { m.Packages[p].Structs[i] : i \in DOMAIN m.Packages[p].Structs }
            : p \in DOMAIN m.Packages }

\* the doc comments of a declaration carry both directives
HasBothDirectives(decl) ==
    LET docs == decl.declDoc \o decl.specDoc
    IN  /\ \E i \in DOMAIN docs : docs[i] \in IncludeComments
        /\ \E i \in DOMAIN docs : docs[i] \in ExcludeComments

\* a sequence without its element k
Without(s, k) == SubSeq(s, 1, k - 1) \o SubSeq(s, k + 1, Len(s))

\* C16: for a struct whose doc comments (declaration and spec together)
\* carry both the include and the exclude directive, under every setting of
\* struct.explicit and struct.include_unexported: one ScanError with the
\* file and the line of the struct is recorded, there is no StructModel of
\* that struct, and the packages of the model are those the file gives
\* without that declaration.
C16_BothDirectives ==
    (/\ pc = "returned"
     /\ call.fn = "scanFile") =>
        \A k \in DOMAIN call.args.file.decls :
           LET file == call.args.file
               decl == file.decls[k]
               rest == [file EXCEPT !.decls = Without(file.decls, k)]
           IN  HasBothDirectives(decl) =>
                 /\ call.ret.Errors =
                      <<[File |-> file.path, Line |-> decl.line,
                         Message |-> S_bothDirectives]>>
                 /\ ~\E sm \in StructModelsOf(call.ret) : sm.Name = decl.name
                 /\ call.ret.Packages \in
                      { m.Packages :
                          m \in scanFile(call.args.c, NoEnv, NewModel, rest) }
                 /\ call.ret.StructsFound = Cardinality(StructModelsOf(call.ret))

\* the unexported struct user has the include directive on its declaration
\* and the exclude directive on its spec, under include_unexported: it is
\* reported and dropped, and the struct Other after it is in the model
C16_Witness ==
    /\ pc = "returned"
    /\ call.fn = "scanFile"
    /\ ~call.args.c.Input.Struct.Explicit
    /\ call.args.c.Input.Struct.IncludeUnexported
    /\ call.args.file.decls[1].name = S_user
    /\ call.args.file.decls[1].declDoc = <<"//constago:include">>
    /\ call.args.file.decls[1].specDoc = <<"// constago:exclude">>
    /\ Len(call.ret.Errors) = 1
    /\ call.ret.Errors[1].Line = 3
    /\ { sm.Name : sm \in StructModelsOf(call.ret) } = { <<"O","t","h","e","r">> }

\* the spelling of a type expression in the source (gofmt form)
RECURSIVE Spelling(_)
Spelling(t) ==
    CASE t.k = "Ident" -> t.name
      [] t.k = "Selector" -> t.x \o <<".">> \o t.sel
      [] t.k = "Array" -> <<"[">> \o t.len \o <<"]">> \o Spelling(t.elt)
      [] t.k = "Star" -> <<"*">> \o Spelling(t.x)
      [] t.k = "Map" ->
           <<"m","a","p","[">> \o Spelling(t.key) \o <<"]">> \o Spelling(t.value)
      [] t.k = "Chan" ->
           (CASE t.dir = "SEND" -> <<"c","h","a","n","<","-"," ">>
              [] t.dir = "RECV" -> <<"<","-","c","h","a","n"," ">>
              [] OTHER -> <<"c","h","a","n"," ">>) \o Spelling(t.value)
      [] t.k = "Index" ->
           Spelling(t.x) \o <<"[">> \o Spelling(t.index) \o <<"]">>
      [] t.k = "IndexList" ->
           Spelling(t.x) \o <<"[">>
           \o Join([i \in DOMAIN t.indices |-> Spelling(t.indices[i])],
                   <<",", " ">>)
           \o <<"]">>

\* C18: for a field type built from identifiers, package-qualified names,
\* slices, fixed-length arrays, pointers, maps, channels and generic
\* instantiations, createValueOutput gives a ValueOutput whose TypeName is
\* the source spelling of the type.
C18_TypeNameIsSpelling ==
    (/\ pc = "returned"
     /\ call.fn = "createValueOutput") =>
        /\ call.ret # <<>>
        /\ call.ret[1].TypeName = Spelling(call.args.type)

\* a qualified name occurs in a type expression
RECURSIVE HasQualifiedName(_)
HasQualifiedName(t) ==
    CASE t.k = "Selector" -> TRUE
      [] t.k = "Array" -> HasQualifiedName(t.elt)
      [] t.k = "Star" -> HasQualifiedName(t.x)
      [] t.k = "Map" -> HasQualifiedName(t.key) \/ HasQualifiedName(t.value)
      [] t.k = "Chan" -> HasQualifiedName(t.value)
      [] t.k = "Index" -> HasQualifiedName(t.x) \/ HasQualifiedName(t.index)
      [] t.k = "IndexList" ->
           \/ HasQualifiedName(t.x)
           \/ \E i \in DOMAIN t.indices : HasQualifiedName(t.indices[i])
      [] OTHER -> FALSE

\* the import declarations of a list that bind an identifier in the file:
\* by their alias, or by the last segment of the path
ImportsBinding(imports, ident) ==
    { i \in DOMAIN imports :
        IF imports[i].name # <<>> THEN imports[i].name = ident
        ELSE LastSegment(imports[i].path) = ident }

\* the name go list prints for an import path, the identifier when nothing
\* resolves the path
TrueName(env, path, ident) ==
    IF path \in DOMAIN env.goList THEN env.goList[path] ELSE ident

InModule(path, modulePath) ==
    \/ path = modulePath
    \/ HasPrefix(path, modulePath \o <<"/">>)

\* the name the external strategy chain gives an import path: go list, then
\* the module cache, "" when neither knows it
ExternalName(env, path) ==
    IF Lookup(env.goList, path) # <<>> /\ Lookup(env.goList, path) # S_main
    THEN Lookup(env.goList, path)
    ELSE Lookup(env.modCache, path)

\* the package clause found in the module's directory for an import path
\* of the module, "" when there is none
LocalName(env, path) ==
    Lookup(env.local,
           IF path = env.modulePath THEN <<>>
           ELSE SubSeq(path, Len(env.modulePath) + 2, Len(path)))

\* C25: buildImportIndex treats an import as local (true name read from
\* the module's own directory, external strategies not consulted) exactly
\* when the import path is the module's root path or a slash-separated
\* sub-path of it; every other import path, also one that only shares the
\* module path as a leading string, is resolved through the external
\* strategy chain.
C25_LocalImportsBySegment ==
    (pc = "returned" /\ call.fn = "buildImportIndex") =>
      LET env   == call.args.env
          imp   == call.args.imports[1]
          ident == IF imp.name # <<>> THEN imp.name ELSE LastSegment(imp.path)
          local == /\ env.moduleDir
                   /\ env.modulePath # <<>>
                   /\ InModule(imp.path, env.modulePath)
          found == IF local THEN LocalName(env, imp.path)
                   ELSE ExternalName(env, imp.path)
      IN  /\ ident \in DOMAIN call.ret
          /\ call.ret[ident].Path = imp.path
          /\ call.ret[ident].Name = IF found # <<>> THEN found ELSE ident

\* what buildImportIndex does: the same with "local" decided by
\* strings.HasPrefix(path, modulePath)
LocalImportsByPrefix ==
    (pc = "returned" /\ call.fn = "buildImportIndex") =>
      LET env   == call.args.env
          imp   == call.args.imports[1]
          ident == IF imp.name # <<>> THEN imp.name ELSE LastSegment(imp.path)
          local == /\ env.moduleDir
                   /\ env.modulePath # <<>>
                   /\ HasPrefix(imp.path, env.modulePath)
          found == IF local
                   THEN Lookup(env.local,
                               IF InModule(imp.path, env.modulePath)
                               THEN IF imp.path = env.modulePath THEN <<>>
                                    ELSE SubSeq(imp.path, Len(env.modulePath) + 2,
                                                Len(imp.path))
                               ELSE SubSeq(imp.path, Len(env.modulePath) + 1,
                                           Len(imp.path)))
                   ELSE ExternalName(env, imp.path)
      IN  /\ ident \in DOMAIN call.ret
          /\ call.ret[ident].Path = imp.path
          /\ call.ret[ident].Name = IF found # <<>> THEN found ELSE ident

\* the import paths of the packages whose names occur in a type expression
RECURSIVE PackagePathsIn(_, _)
PackagePathsIn(t, imports) ==
    CASE t.k = "Selector" ->
           { imports[i].path : i \in ImportsBinding(imports, t.x) }
      [] t.k = "Array" -> PackagePathsIn(t.elt, imports)
      [] t.k = "Star" -> PackagePathsIn(t.x, imports)
      [] t.k = "Map" -> PackagePathsIn(t.key, imports)
                        \cup PackagePathsIn(t.value, imports)
      [] t.k = "Chan" -> PackagePathsIn(t.value, imports)
      [] t.k = "Index" -> PackagePathsIn(t.x, imports)
                          \cup PackagePathsIn(t.index, imports)
      [] t.k = "IndexList" ->
           PackagePathsIn(t.x, imports)
           \cup UNION { PackagePathsIn(t.indices[i], imports)
                        : i \in DOMAIN t.indices }
      [] OTHER -> {}

\* the import paths in a type expression at the places extractTypeInfo
\* follows: the element of a slice, array, pointer or channel, the value of
\* a map and the base of an instantiation
RECURSIVE PackagePathsFollowed(_, _)
PackagePathsFollowed(t, imports) ==
    CASE t.k = "Selector" ->
           { imports[i].path : i \in ImportsBinding(imports, t.x) }
      [] t.k = "Array" -> PackagePathsFollowed(t.elt, imports)
      [] t.k = "Star" -> PackagePathsFollowed(t.x, imports)
      [] t.k = "Map" -> PackagePathsFollowed(t.value, imports)
      [] t.k = "Chan" -> PackagePathsFollowed(t.value, imports)
      [] t.k = "Index" -> PackagePathsFollowed(t.x, imports)
      [] t.k = "IndexList" -> PackagePathsFollowed(t.x, imports)
      [] OTHER -> {}

\* C28: for every getter with a :value return, each imported package that
\* occurs anywhere in the field's type (element type, map key, map value,
\* generic type argument) is registered in the owning package's Imports.
C28_TypePackagesRegistered ==
    (pc = "returned" /\ call.fn = "scanFileValue") =>
       /\ "p" \in DOMAIN call.ret.Packages
       /\ PackagePathsIn(call.args.type, call.args.imports)
            \subseteq DOMAIN call.ret.Packages["p"].Imports

\* what scanFile and AddStruct do register: the package at the places
\* extractTypeInfo follows, and nothing else with a path
TypePackagesFollowedRegistered ==
    (pc = "returned" /\ call.fn = "scanFileValue") =>
       /\ "p" \in DOMAIN call.ret.Packages
       /\ DOMAIN call.ret.Packages["p"].Imports \ { <<>> }
            = PackagePathsFollowed(call.args.type, call.args.imports)

\* C29: every entry of a package's Imports has a non-empty path: a :value
\* return whose type is unqualified, primitive or unresolved registers no
\* import and never causes another import to receive an alias.
C29_ImportsHavePaths ==
    (pc = "returned" /\ call.fn = "scanFileValue") =>
       \A p \in DOMAIN call.ret.Packages :
          LET imps == call.ret.Packages[p].Imports
          IN  /\ <<>> \notin DOMAIN imps
              /\ \A ip \in DOMAIN imps :
                    imps[ip].Alias # <<>> =>
                       \E o \in DOMAIN imps \ { ip, <<>> } :
                          imps[o].Name = imps[ip].Name

---------------------------------------------------------------------------
(* Runs of the aggregator alone: Model.AddStruct called with struct models *)
(* whose getter returns are drawn from the imports below.  hist is the     *)
(* list of the returns handed over so far, in order: the package, the      *)
(* import path of a value return (<<>> marks a constant return), and       *)
(* whether the call registered the import.  call counts the calls made and *)
(* collects the package paths they passed.                                 *)

S_ust == <<"_","s","t">>

S_pathB == <<"b","/","s","t">>

S_pathC == <<"c","/","s","t">>

S_pathD == <<"d","/","_","s","t">>

\* three packages named st, one named _st, and the package of the file
\* itself as createValueOutput gives it for an unqualified type
AddPkgs ==
    { Pkg(S_pathA, S_st)[1], Pkg(S_pathB, S_st)[1], Pkg(S_pathC, S_st)[1],
      Pkg(S_pathD, S_ust)[1], Pkg(<<>>, S_m)[1] }

ValueReturn(tp) ==
    ReturnOutput("Value", [FieldName |-> S_Ab, TypeName |-> S_string,
                           TypePackage |-> tp])

ConstantReturn ==
    ReturnOutput("Constant", [Name |-> S_Ab, Value |-> S_Ab])

AddReturns == { ValueReturn(tp) : tp \in AddPkgs } \cup { ConstantReturn }

AddStructModel(returns) ==
    [Name |-> S_User, File |-> "a", LineNumber |-> 3,
     Constants |-> <<>>, Structs |-> <<>>,
     Getters |-> IF returns = <<>> THEN <<>>
                 ELSE <<[Name |-> S_get, Returns |-> returns]>>]

\* the returns of a struct model as entries of hist, given the paths the
\* call registered
HandedOver(packagePath, returns, log) ==
    [i \in DOMAIN returns |->
        IF returns[i].Value = <<>>
        THEN [pkg |-> packagePath, path |-> <<>>, value |-> FALSE,
              registered |-> FALSE]
        ELSE [pkg |-> packagePath, path |-> returns[i].Value[1].TypePackage.Path,
              value |-> TRUE,
              registered |->
                 /\ \E k \in DOMAIN log : log[k] = returns[i].Value[1].TypePackage.Path
                 /\ \A j \in 1..(i - 1) :
                       \/ returns[j].Value = <<>>
                       \/ returns[j].Value[1].TypePackage.Path
                            # returns[i].Value[1].TypePackage.Path]]

AddInit ==
    /\ cfg = <<>>
    /\ fs = <<>>
    /\ pc = "add"
    /\ files = <<>>
    /\ model = NewModel
    /\ buildErr = FALSE
    /\ call = [paths |-> {}, n |-> 0]
    /\ hist = <<>>

AddStructCall ==
    /\ pc = "add"
    /\ model.StructsFound < MaxAddCalls
    /\ \E packagePath \in {"p", "q"},
          returns \in SeqsUpTo(AddReturns, MaxAddReturns - Len(hist)) :
         \E r \in addStructRuns(model, packagePath, S_m, AddStructModel(returns)) :
            /\ model' = r.m
            /\ hist' = hist \o HandedOver(packagePath, returns, r.log)
            /\ call' = [paths |-> call.paths \cup {packagePath},
                        n |-> call.n + 1]
    /\ UNCHANGED <<cfg, fs, pc, files, buildErr>>

AddNext == AddStructCall

SpecAdd == AddInit /\ [][AddNext]_vars

\* the paths a package registered, in the order of their registration
RECURSIVE RegisteredIn(_, _)
RegisteredIn(packagePath, h) ==
    IF h = <<>> THEN <<>>
    ELSE IF h[1].pkg = packagePath /\ h[1].registered
    THEN <<h[1].path>> \o RegisteredIn(packagePath, Tail(h))
    ELSE RegisteredIn(packagePath, Tail(h))

Underscores(i) == [j \in 1..i |-> "_"]

\* the name with any leading underscores removed
RECURSIVE StripUnderscores(_)
StripUnderscores(n) ==
    IF n # <<>> /\ n[1] = "_" THEN StripUnderscores(Tail(n)) ELSE n

\* C5: adding to one package, through successive AddStruct calls, k distinct
\* import paths that all have the same true name n gives the i-th requested
\* import (i = 0..k-1) an alias made of i underscores followed by n, the
\* first keeping an empty alias (no other import of the package being named
\* n behind underscores).
C5_AliasByRequestOrder ==
    \A packagePath \in DOMAIN model.Packages :
        LET imps == model.Packages[packagePath].Imports
            regs == RegisteredIn(packagePath, hist)
        IN  \A n \in { imps[k].Name : k \in DOMAIN imps } :
              LET same == { k \in DOMAIN imps : imps[k].Name = n }
                  \* the positions of the imports named n in the order of
                  \* their registration
                  pos(k) == Cardinality({ j \in DOMAIN regs :
                               regs[j] \in same
                               /\ \E j2 \in DOMAIN regs :
                                     j < j2 /\ regs[j2] = k })
              IN  (\A k \in DOMAIN imps \ same :
                       StripUnderscores(imps[k].Name) # StripUnderscores(n))
                  => \A k \in same :
                       imps[k].Alias = IF pos(k) = 0 THEN <<>>
                                       ELSE Underscores(pos(k)) \o n

\* three imports named st were registered in package p one after the other
\* and carry the aliases "", "_st" and "__st"
C5_Witness ==
    /\ pc = "add"
    /\ "p" \in DOMAIN model.Packages
    /\ RegisteredIn("p", hist) = <<S_pathA, S_pathB, S_pathC>>
    /\ model.Packages["p"].Imports[S_pathA].Alias = <<>>
    /\ model.Packages["p"].Imports[S_pathB].Alias = S_ust
    /\ model.Packages["p"].Imports[S_pathC].Alias = <<"_">> \o S_ust

\* the identifier an import is used by: the alias when set, else the name
EffectiveIdentifier(imp) == IF imp.Alias # <<>> THEN imp.Alias ELSE imp.Name

\* C6: after any sequence of AddStruct calls whose value returns arrive
\* with an empty alias, in every package's Imports each path has exactly one
\* entry and no two entries have the same effective identifier (the alias
\* when set, otherwise the name).
C6_ImportsDistinct ==
    \A packagePath \in DOMAIN model.Packages :
        LET imps == model.Packages[packagePath].Imports
        IN  /\ \A k \in DOMAIN imps : imps[k].Path = k
            /\ \A k1, k2 \in DOMAIN imps :
                  k1 # k2 =>
                    EffectiveIdentifier(imps[k1]) # EffectiveIdentifier(imps[k2])

\* a package holds an import named _st and two imports named st, and the
\* second of these was pushed past the name _st
C6_Witness ==
    /\ pc = "add"
    /\ "q" \in DOMAIN model.Packages
    /\ RegisteredIn("q", hist) = <<S_pathA, S_pathD, S_pathB>>
    /\ EffectiveIdentifier(model.Packages["q"].Imports[S_pathB])
         = <<"_">> \o S_ust

\* the counters and the package map after the calls made so far
PackagesCounted ==
    /\ DOMAIN model.Packages = call.paths
    /\ \A p \in DOMAIN model.Packages : model.Packages[p].Path = p
    /\ model.PackagesFound = Cardinality(DOMAIN model.Packages)
    /\ model.StructsFound = call.n
    /\ model.StructsFound =
         Cardinality(UNION { { <<p, i>> : i \in DOMAIN model.Packages[p].Structs }
                             : p \in DOMAIN model.Packages })

\* a call keeps every package entry: its name and path, the structs it had
\* as a prefix of its struct list, and the paths of its imports
PackagesKept ==
    \A p \in DOMAIN model.Packages :
       /\ p \in DOMAIN model'.Packages
       /\ model'.Packages[p].Name = model.Packages[p].Name
       /\ model'.Packages[p].Path = model.Packages[p].Path
       /\ Len(model'.Packages[p].Structs) >= Len(model.Packages[p].Structs)
       /\ SubSeq(model'.Packages[p].Structs, 1, Len(model.Packages[p].Structs))
            = model.Packages[p].Structs
       /\ DOMAIN model.Packages[p].Imports \subseteq DOMAIN model'.Packages[p].Imports

\* C21: after any sequence of AddStruct calls, Packages has exactly one
\* entry per distinct package path passed so far, PackagesFound is the
\* number of entries, StructsFound is the number of calls and the total
\* length of the packages' struct lists; no call removes or replaces an
\* entry.
C21_PackagesAndCounts == []PackagesCounted /\ [][PackagesKept]_vars

\* three calls, two of them for the package p: two entries, three structs
C21_Witness ==
    /\ pc = "add"
    /\ call.n = 3
    /\ DOMAIN model.Packages = {"p", "q"}
    /\ Len(model.Packages["p"].Structs) = 2
    /\ Len(model.Packages["q"].Structs) = 1
    /\ model.PackagesFound = 2
    /\ model.StructsFound = 3

\* an import of the set others has the string s as name or alias
Collides(s, others) == \E o \in others : o.Name = s \/ o.Alias = s

\* the alias of a new import named n next to the imports others: empty
\* without a collision on n, else n behind the least number k >= 1 of
\* underscores that collides with nothing
LeastFreeAlias(n, others) ==
    IF ~Collides(n, others) THEN <<>>
    ELSE LET free == { k \in 1..(Cardinality(others) + 1) :
                         ~Collides(Underscores(k) \o n, others) }
         IN  Underscores(CHOOSE k \in free : \A j \in free : k <= j) \o n

\* C22: the alias of every import registered in a package is the one its
\* name and the imports registered before it determine, whatever the
\* iteration order of the import map was: empty when none of them has the
\* name as name or alias, otherwise the name behind the smallest number
\* k >= 1 of underscores such that none of them has that string as name or
\* alias.
C22_AliasDetermined ==
    \A packagePath \in DOMAIN model.Packages :
        LET imps == model.Packages[packagePath].Imports
            regs == RegisteredIn(packagePath, hist)
        IN  /\ { regs[j] : j \in DOMAIN regs } = DOMAIN imps
            /\ \A j \in DOMAIN regs :
                  imps[regs[j]].Alias =
                     LeastFreeAlias(imps[regs[j]].Name,
                                    { imps[regs[i]] : i \in 1..(j - 1) })

\* after a/st and d/_st, the import b/st was registered in a package: st
\* and _st are taken, its alias is __st
C22_Witness ==
    /\ pc = "add"
    /\ "p" \in DOMAIN model.Packages
    /\ RegisteredIn("p", hist) = <<S_pathA, S_pathD, S_pathB>>
    /\ model.Packages["p"].Imports[S_pathD].Alias = <<>>
    /\ model.Packages["p"].Imports[S_pathB].Alias = <<"_", "_">> \o S_st

---------------------------------------------------------------------------
(* setRecursiveAlias step by step, as AddStruct starts it for a newly      *)
(* registered import.  fs is pkg.Imports (the new import included, its     *)
(* Alias is the alias being set), call names the new import, hist is the   *)
(* stack of the calls: each frame has currentNameOrAlias and the entries   *)
(* its range has still to visit (any of them can come next).               *)

S_uust == <<"_","_","s","t">>

AliasPaths == <<S_pathA, S_pathB, S_pathC, S_pathD>>

\* a name and an alias of a registered import: every pair over st and _st,
\* the alias also empty or __st
AliasPairs ==
    << <<S_st, <<>>>>, <<S_st, S_ust>>, <<S_st, S_uust>>,
       <<S_ust, <<>>>>, <<S_ust, S_ust>>, <<S_ust, S_uust>> >>

\* the imports registered before: any names and any aliases.  The paths
\* only tell the entries apart, so of the assignments of pairs to paths
\* that differ by a permutation of the paths one is taken.
AliasImportSets ==
    UNION { { [i \in { AliasPaths[j] : j \in 1..n } |->
                 AliasPairs[f[CHOOSE j \in 1..n : AliasPaths[j] = i]]]
              : f \in { g \in [1..n -> DOMAIN AliasPairs] :
                          \A j \in 1..(n - 1) : g[j] <= g[j + 1] } }
            : n \in 0..MaxAliasImports }

S_pathNew == <<"n","/","s","t">>

\* the condition of the if in the range of setRecursiveAlias
aliasCollision(imp, currentImport, currentNameOrAlias) ==
    /\ imp.Path # currentImport.Path
    /\ (imp.Name = currentNameOrAlias \/ imp.Alias = currentNameOrAlias)

\* the string a call hands on without its underscore
nextAlias_same(currentNameOrAlias) == currentNameOrAlias

\* fmt.Sprintf("_%s", currentNameOrAlias)
nextAlias(currentNameOrAlias) == <<"_">> \o currentNameOrAlias

AliasInit ==
    /\ cfg = <<>>
    /\ \E others \in AliasImportSets :
          fs = MapPut([p \in DOMAIN others |->
                         [Path |-> p, Name |-> others[p][1],
                          Alias |-> others[p][2]]],
                      S_pathNew,
                      [Path |-> S_pathNew, Name |-> S_st, Alias |-> <<>>])
    /\ pc = "alias"
    /\ files = <<>>
    /\ model = NewModel
    /\ buildErr = FALSE
    /\ call = [path |-> S_pathNew, name |-> S_st]
    /\ hist = <<[name |-> S_st, todo |-> DOMAIN fs]>>

\* the range visits an entry that does not collide
AliasSkip ==
    /\ pc = "alias"
    /\ \E p \in hist[Len(hist)].todo :
          /\ ~aliasCollision(fs[p], fs[call.path], hist[Len(hist)].name)
          /\ hist' = [hist EXCEPT ![Len(hist)].todo = @ \ {p}]
    /\ UNCHANGED <<cfg, fs, pc, files, model, buildErr, call>>

\* the range visits an entry that collides: the alias is set and
\* setRecursiveAlias is called on it
AliasRecurse ==
    /\ pc = "alias"
    /\ Len(hist) < MaxAliasDepth
    /\ \E p \in hist[Len(hist)].todo :
          /\ aliasCollision(fs[p], fs[call.path], hist[Len(hist)].name)
          /\ fs' = [fs EXCEPT ![call.path].Alias = nextAlias(hist[Len(hist)].name)]
          /\ hist' = Append([hist EXCEPT ![Len(hist)].todo = @ \ {p}],
                            [name |-> nextAlias(hist[Len(hist)].name),
                             todo |-> DOMAIN fs])
    /\ UNCHANGED <<cfg, pc, files, model, buildErr, call>>

\* a range is over: the call returns, the outermost one to AddStruct
AliasReturn ==
    /\ pc = "alias"
    /\ hist[Len(hist)].todo = {}
    /\ hist' = SubSeq(hist, 1, Len(hist) - 1)
    /\ pc' = IF Len(hist) = 1 THEN "aliasDone" ELSE "alias"
    /\ UNCHANGED <<cfg, fs, files, model, buildErr, call>>

AliasNext ==
    \/ AliasSkip
    \/ AliasRecurse
    \/ AliasReturn

\* the calls are steps of one sequential program: a step that can be taken
\* is taken
SpecAlias == AliasInit /\ [][AliasNext]_vars /\ WF_vars(AliasNext)

\* C23: for every set of imports registered in a package, with any names
\* and aliases, the recursive alias resolution started for a newly
\* registered import returns to AddStruct.
C23_AliasTerminates == <>(pc = "aliasDone")

\* the resolution returned after passing st and _st, held as a name and as
\* an alias by two registered imports: the alias is __st
C23_Witness ==
    /\ pc = "aliasDone"
    /\ hist = <<>>
    /\ Cardinality(DOMAIN fs) = 3
    /\ fs[S_pathA].Name = S_st
    /\ fs[S_pathB].Alias = S_ust
    /\ fs[S_pathB].Name = S_st
    /\ fs[S_pathNew].Alias = S_uust

---------------------------------------------------------------------------
(* Runs of scanFile alone: a builder made for the configuration cfg scans  *)
(* the one file fs.file, which declares the struct User.                   *)

\* a parenthesised type, (string): no case of extractTypeInfo
TypeParen == [k |-> "Paren", x |-> TypeString]

\* the name of the field at position i > 1: Ef, Eff, ...
LaterName(i) == <<"E">> \o [j \in 1..(i - 1) |-> "f"]

\* the field declarations the struct can have at position i; the names of a
\* struct's fields differ, as the compiler demands
ScanFieldsAt(i) ==
    IF i = 1
    THEN { Field(<<S_Ab>>, <<TagPair("json", <<"n">>)>>, TypeString),
           Field(<<S_Ab>>, <<>>, TypeString),
           Field(<<S_Ab>>, <<TagPair("json", <<",", "o">>)>>, TypeParen),
           Field(<<S_cd>>, <<TagPair("json", <<"n">>)>>, TypeString),
           Field(<<S_Ab, S_cd>>, <<TagPair("json", <<"n">>)>>, TypeString) }
    ELSE { Field(<<LaterName(i)>>, <<TagPair("json", <<"x">>)>>, TypeParen),
           Field(<<LaterName(i)>>, <<>>, TypeString) }

ScanStructDecls ==
    { StructDecl(S_User, <<>>, <<>>, fields) :
        fields \in { f \in SeqsUpTo(UNION { ScanFieldsAt(i) : i \in 1..MaxFields },
                                    MaxFields) :
                       \A i \in DOMAIN f : f[i] \in ScanFieldsAt(i) } }

SourceFile(path, dir, pkgName, decls) ==
    [path |-> path, dir |-> dir, pkgName |-> pkgName, parses |-> TRUE,
     errLine |-> 0, imports |-> <<>>, decls |-> decls]

ScanJsonElements ==
    { Element(S_json, mode, <<"json">>, out, fm[1], fm[2], FALSE, "asIs", <<>>) :
        mode \in {"tag", "tagThenField"},
        out \in {"constant", "struct", "none"},
        fm \in { <<"pascal", "pascal">>, <<"snakeUpper", "pascal">> } }

ScanElementLists ==
    { <<e>> : e \in ScanJsonElements }
    \cup { <<e, Element(S_fld, "field", <<"json">>, "constant", "pascal",
                        "pascal", FALSE, "asIs", <<>>)>>
           : e \in ScanJsonElements }
    \cup { <<e, Element(name, "field", <<"json">>, "struct", "pascal",
                        "pascal", FALSE, "asIs", <<>>)>>
           : e \in { j \in ScanJsonElements : j.Output.Mode = "struct" },
             name \in { S_fld, S_json } }

\* no getter, or the getter get; validate admits as returns the names of
\* the elements and ":value"
ScanGetterLists(elements) ==
    { <<>> }
    \cup { <<Getter(S_get, returns)>> :
             returns \in SeqsFromTo({S_value}
                                    \cup { elements[i].Name : i \in DOMAIN elements },
                                    1, MaxReturns) }

ScanConfigs ==
    UNION { { Config(FALSE, FALSE, FALSE, fu, <<>>, <<>>, elements, getters) :
                fu \in BOOLEAN, getters \in ScanGetterLists(elements) }
            : elements \in ScanElementLists }

ScanInit ==
    /\ cfg \in ScanConfigs
    /\ fs \in { [file |-> SourceFile("a", "p", S_m, <<decl>>)] :
                  decl \in ScanStructDecls }
    /\ pc = "scan"
    /\ files = <<>>
    /\ model = NewModel
    /\ buildErr = FALSE
    /\ call = <<>>
    /\ hist = <<>>

ScanFileCall ==
    /\ pc = "scan"
    /\ model' \in scanFile(cfg, NoEnv, model, fs.file)
    /\ pc' = "scanned"
    /\ UNCHANGED <<cfg, fs, files, buildErr, call, hist>>

ScanNext == ScanFileCall

SpecScan == ScanInit /\ [][ScanNext]_vars

\* the struct models of the model, over all packages
StructModels ==
    UNION { { model.Packages[p].Structs[i] :
                i \in DOMAIN model.Packages[p].Structs }
            : p \in DOMAIN model.Packages }

\* the included fields of a declaration, name by name: pairs of a name and
\* the field declaration it comes from
IncludedNames(c, decl) ==
    UNION { { <<decl.fields[fi].names[ni], decl.fields[fi]>> :
                ni \in DOMAIN decl.fields[fi].names }
            : fi \in { k \in DOMAIN decl.fields :
                         mustIncludeField(c, decl.fields[k]) } }

\* whether the return r of a getter satisfies the configured token for the
\* field name f
Satisfies(r, token, f) ==
    IF token = S_value
    THEN /\ r.Value # <<>> /\ r.Value[1].FieldName = f
         /\ r.Constant = <<>> /\ r.None = <<>> /\ r.Field = <<>>
    ELSE /\ r.Value = <<>>
         /\ \/ /\ r.Constant # <<>> /\ r.None = <<>> /\ r.Field = <<>>
               /\ r.Constant[1].ghost.field = f
               /\ cfg.Elements[r.Constant[1].ghost.elem].Name = token
            \/ /\ r.Field # <<>> /\ r.None = <<>> /\ r.Constant = <<>>
               /\ r.Field[1].ghost.field = f
               /\ cfg.Elements[r.Field[1].ghost.elem].Name = token
            \/ /\ r.None # <<>> /\ r.Field = <<>> /\ r.Constant = <<>>
               /\ r.None[1].Name = token

\* whether the field name f of the declaration field lacks the artifact a
\* token asks for: no value output for ":value", no element value for an
\* element name
Lacks(f, field, token) ==
    IF token = S_value
    THEN createValueOutput(NoEnv, field.type, f, S_m, <<>>) = { <<>> }
    ELSE \A ei \in DOMAIN cfg.Elements :
            cfg.Elements[ei].Name = token =>
               computeElementValue(f, field.tag, cfg.Elements[ei]) = <<>>

\* C1: for every configured getter with N returns and every included
\* field, the struct's getter list holds for that pair either no getter at
\* all or one getter whose return list has exactly N entries, the i-th entry
\* satisfying the i-th configured token; a field that lacks the artifact for
\* any single token gets no getter, never a partial one.
C1_GetterAllOrNothing ==
    pc = "scanned" =>
      \A sm \in StructModels :
        /\ \A k \in DOMAIN sm.Getters :
              LET g == cfg.Getters[sm.Getters[k].ghost.getter]
              IN  /\ Len(sm.Getters[k].Returns) = Len(g.Returns)
                  /\ \A i \in DOMAIN g.Returns :
                        Satisfies(sm.Getters[k].Returns[i], g.Returns[i],
                                  sm.Getters[k].ghost.field)
        /\ \A nf \in IncludedNames(cfg, fs.file.decls[1]) :
           \A gi \in DOMAIN cfg.Getters :
              LET mine == { k \in DOMAIN sm.Getters :
                              sm.Getters[k].ghost
                                = [field |-> nf[1], getter |-> gi] }
              IN  /\ Cardinality(mine) <= 1
                  /\ (\E i \in DOMAIN cfg.Getters[gi].Returns :
                         Lacks(nf[1], nf[2], cfg.Getters[gi].Returns[i]))
                     => mine = {}

\* returns [":value", "json"] with json in tag mode: the field Ab, tagged
\* json, has its getter with two returns; the field Ef, without a tag, has
\* none
C1_Witness ==
    /\ pc = "scanned"
    /\ cfg.Getters # <<>>
    /\ cfg.Getters[1].Returns = <<S_value, S_json>>
    /\ cfg.Elements[1].Input.Mode = "tag"
    /\ fs.file.decls[1].fields
         = <<Field(<<S_Ab>>, <<TagPair("json", <<"n">>)>>, TypeString),
             Field(<<LaterName(2)>>, <<>>, TypeString)>>
    /\ \E sm \in StructModels :
          /\ Len(sm.Getters) = 1
          /\ sm.Getters[1].ghost.field = S_Ab
          /\ Len(sm.Getters[1].Returns) = 2

\* C8: for every included field and every constant-mode element that
\* yields a non-empty value, exactly one constant is produced; its value is
\* the element value and its name is the element prefix, the struct name,
\* the field name and the suffix, formatted in the element's holder format.
C8_ConstantNaming ==
    pc = "scanned" =>
      \A nf \in IncludedNames(cfg, fs.file.decls[1]) :
      \A ei \in DOMAIN cfg.Elements :
         LET el    == cfg.Elements[ei]
             value == computeElementValue(nf[1], nf[2].tag, el)
         IN  (el.Output.Mode = "constant" /\ value # <<>>) =>
               \E sm \in StructModels :
                  LET mine == { k \in DOMAIN sm.Constants :
                                  sm.Constants[k].ghost
                                    = [field |-> nf[1], elem |-> ei] }
                  IN  /\ Cardinality(mine) = 1
                      /\ \A k \in mine :
                           /\ sm.Constants[k].Value = value
                           /\ sm.Constants[k].Name =
                                buildName(el.Output.Format.Prefix,
                                          fs.file.decls[1].name, nf[1],
                                          el.Output.Format.Suffix,
                                          el.Output.Format.Holder)

\* the included names of a declaration, in declaration order, from field
\* declaration fi on: pairs of a name and its field declaration
RECURSIVE NamesInOrder(_, _, _)
NamesInOrder(c, fields, fi) ==
    IF fi > Len(fields) THEN <<>>
    ELSE (IF mustIncludeField(c, fields[fi])
          THEN [ni \in DOMAIN fields[fi].names |-> <<fields[fi].names[ni], fields[fi]>>]
          ELSE <<>>)
         \o NamesInOrder(c, fields, fi + 1)

\* the included names that have a non-empty value for the element el
ValuedNames(c, decl, el) ==
    LET Valued(nf) == computeElementValue(nf[1], nf[2].tag, el) # <<>>
    IN  SelectSeq(NamesInOrder(c, decl.fields, 1), Valued)

\* the accessor records of a struct model that hold a field of element ei
RecordsOf(sm, ei) ==
    { k \in DOMAIN sm.Structs :
        \E j \in DOMAIN sm.Structs[k].Fields :
           sm.Structs[k].Fields[j].ghost.elem = ei }

\* one accessor record for the element ei: it exists iff an included name
\* has a value for ei, and holds one FieldOutput per such name, in order
AccessorRecordFor(ei) ==
    LET valued == ValuedNames(cfg, fs.file.decls[1], cfg.Elements[ei])
    IN  /\ valued # <<>> => StructModels # {}
        /\ \A sm \in StructModels :
             /\ Cardinality(RecordsOf(sm, ei)) <= 1
             /\ RecordsOf(sm, ei) # {} <=> valued # <<>>
             /\ \A k \in RecordsOf(sm, ei) :
                  /\ Len(sm.Structs[k].Fields) = Len(valued)
                  /\ \A j \in DOMAIN valued :
                       /\ sm.Structs[k].Fields[j].ghost.field = valued[j][1]
                       /\ sm.Structs[k].Fields[j].StructName = sm.Structs[k].Name

\* C24: for each struct and each struct-mode element there is at most one
\* accessor record; it exists iff at least one included field has a
\* non-empty value for that element, and it holds exactly one FieldOutput
\* per such field, in field declaration order, each with StructName equal
\* to the record's name.
C24_AccessorRecordPerElement ==
    pc = "scanned" =>
      \A ei \in DOMAIN cfg.Elements :
         cfg.Elements[ei].Output.Mode = "struct" => AccessorRecordFor(ei)

\* what scanFile does keep: the same for the struct-mode elements whose
\* name no other element of the configuration has (structByElement is keyed
\* by the element's name)
AccessorRecordPerElementName ==
    pc = "scanned" =>
      \A ei \in DOMAIN cfg.Elements :
         (/\ cfg.Elements[ei].Output.Mode = "struct"
          /\ \A o \in DOMAIN cfg.Elements :
                o # ei => cfg.Elements[o].Name # cfg.Elements[ei].Name)
         => AccessorRecordFor(ei)

\* the field names for which a struct model has a constant, an accessor
\* field or a getter
NamesWithOutput(sm) ==
    { sm.Constants[k].ghost.field : k \in DOMAIN sm.Constants }
    \cup UNION { { sm.Structs[k].Fields[j].ghost.field
                   : j \in DOMAIN sm.Structs[k].Fields }
                 : k \in DOMAIN sm.Structs }
    \cup { sm.Getters[k].ghost.field : k \in DOMAIN sm.Getters }

\* the names of the field declarations without a constago tag
UntaggedNames(decl) ==
    UNION { Range(decl.fields[fi].names)
            : fi \in { k \in DOMAIN decl.fields :
                         ~HasConstagoTag(decl.fields[k]) } }

\* C30: with field.include_unexported off and no constago tag on the
\* declaration, no constant, accessor field or getter is produced for an
\* unexported field name, also when that name is declared in one field
\* declaration together with an exported name (Name, age string).
C30_NoOutputForUnexported ==
    (pc = "scanned" /\ ~cfg.Input.Field.IncludeUnexported) =>
      \A sm \in StructModels :
      \A f \in NamesWithOutput(sm) \cap UntaggedNames(fs.file.decls[1]) :
         IsExported(f)

\* what mustIncludeField does keep: the first name of a field declaration
\* with an output is exported
FirstNameExported ==
    (pc = "scanned" /\ ~cfg.Input.Field.IncludeUnexported) =>
      \A sm \in StructModels :
      \A fi \in DOMAIN fs.file.decls[1].fields :
         LET field == fs.file.decls[1].fields[fi]
         IN  (~HasConstagoTag(field) /\ Range(field.names) \cap NamesWithOutput(sm) # {})
             => IsExported(field.names[1])

---------------------------------------------------------------------------
(* Build: findFiles, then scanFile on each file of its result, in the      *)
(* order of the result.  fs is the tree under Input.Dir: entries as for    *)
(* findFiles, content the parse of each file.  hist lists the files        *)
(* scanned so far.                                                         *)

PathNames == <<"a", "b", "c", "d">>

S_Other == <<"O","t","h","e","r">>

\* what a file can hold: a struct with a tagged field, a struct without
\* fields, a struct without fields followed by one with a tagged field, a
\* struct with both directives, a body that does not parse under a
\* package clause that does, or an import that nothing resolves (NoEnv):
\* of a/st with a field of a type of that import, or of b/st with two such
\* fields
BuildContents(path, dir, pkgName) ==
    LET tagged == <<Field(<<S_Ab>>, <<TagPair("json", <<"n">>)>>, TypeString)>>
        qualified == <<Field(<<S_Ab>>, <<TagPair("json", <<"n">>)>>,
                             [k |-> "Selector", x |-> S_st, sel |-> S_User])>>
        twice == qualified
                 \o <<Field(<<S_Ef>>, <<TagPair("json", <<"x">>)>>,
                            [k |-> "Selector", x |-> S_st, sel |-> S_User])>>
    IN  { [SourceFile(path, dir, pkgName,
                      <<StructDecl(S_Other, <<>>, <<>>, twice)>>)
             EXCEPT !.imports = <<[path |-> S_pathB, name |-> <<>>]>>] }
        \cup
        { SourceFile(path, dir, pkgName, <<StructDecl(S_User, <<>>, <<>>, tagged)>>),
          SourceFile(path, dir, pkgName, <<StructDecl(S_User, <<>>, <<>>, <<>>)>>),
          SourceFile(path, dir, pkgName,
                     <<StructDecl(S_User, <<>>, <<>>, <<>>),
                       StructDecl(S_Other, <<>>, <<>>, tagged)>>),
          SourceFile(path, dir, pkgName,
                     <<StructDecl(S_User, <<"//constago:include">>,
                                  <<"// constago:exclude">>, tagged)>>),
          [SourceFile(path, dir, pkgName, <<>>) EXCEPT !.parses = FALSE,
                                                       !.errLine = 2],
          [SourceFile(path, dir, pkgName,
                      <<StructDecl(S_User, <<>>, <<>>, qualified)>>)
             EXCEPT !.imports = <<[path |-> S_pathA, name |-> <<>>]>>] }

\* the first file lies in the directory p (package m), a later one there or
\* in the directory q (package k)
BuildFilesAt(i) ==
    UNION { BuildContents(PathNames[i], d, IF d = "p" THEN S_m ELSE S_k)
            : d \in IF i = 1 THEN {"p"} ELSE {"p", "q"} }

\* walkErr: filepath.Walk over Input.Dir fails (an unreadable directory)
BuildTree(content, walkErr) ==
    [entries |-> [p \in DOMAIN content |->
                    [isDir |-> FALSE, goSuffix |-> TRUE,
                     clause |-> content[p].pkgName]],
     walkErr |-> walkErr,
     content |-> content]

BuildTrees ==
    UNION { { BuildTree(content, w) :
                w \in BOOLEAN,
                content \in { c \in [{ PathNames[i] : i \in 1..n }
                                      -> UNION { BuildFilesAt(i) : i \in 1..n }] :
                                \A i \in 1..n : c[PathNames[i]] \in BuildFilesAt(i) } }
            : n \in 1..MaxFiles }

\* a constant per field, a none-value per field that a getter returns, or
\* a constant per field and a getter that returns the field's value
BuildOutputs ==
    { [elements |-> <<Element(S_json, "tag", <<"json">>, "constant", "pascal",
                              "pascal", FALSE, "asIs", <<>>)>>,
       getters  |-> <<Getter(S_get, <<S_value>>)>>],
      [elements |-> <<Element(S_json, "tag", <<"json">>, "constant", "pascal",
                              "pascal", FALSE, "asIs", <<>>)>>,
       getters  |-> <<>>],
      [elements |-> <<Element(S_json, "tag", <<"json">>, "none", "pascal",
                              "pascal", FALSE, "asIs", <<>>)>>,
       getters  |-> <<Getter(S_get, <<S_json>>)>>] }

BuildConfigs ==
    { Config(FALSE, FALSE, FALSE, FALSE, inc, exc, o.elements, o.getters) :
        inc \in { <<Glob({ PathNames[i] : i \in 1..MaxFiles })>>,
                  <<PackagePattern(S_m)>>, <<BadGlob>>,
                  <<Glob({ PathNames[i] : i \in 1..MaxFiles }), BadGlob>> },
        exc \in { <<>>, <<Glob({"b"})>>, <<BadGlob>> },
        o \in BuildOutputs }

\* a glob matches the paths of its set that the tree has
OnTree(c, tree) ==
    LET cut(patterns) ==
          [i \in DOMAIN patterns |->
             [patterns[i] EXCEPT !.matches = @ \cap DOMAIN tree.entries]]
    IN  [c EXCEPT !.Input.Include = cut(@), !.Input.Exclude = cut(@)]

Init ==
    /\ fs \in BuildTrees
    /\ cfg \in { OnTree(c, fs) : c \in BuildConfigs }
    /\ pc = "start"
    /\ files = <<>>
    /\ model = NewModel
    /\ buildErr = FALSE
    /\ call = <<>>
    /\ hist = <<>>

\* scanFiles: findFiles succeeded
FindFilesOk ==
    /\ pc = "start"
    /\ ~findFiles(cfg, fs).err
    /\ files' \in Orders(findFiles(cfg, fs).paths)
    /\ pc' = "scan"
    /\ UNCHANGED <<cfg, fs, model, buildErr, call, hist>>

\* scanFiles: findFiles failed, and Build returns the error
FindFilesFailed ==
    /\ pc = "start"
    /\ findFiles(cfg, fs).err
    /\ buildErr' = TRUE
    /\ call' = [fn |-> "Build", args |-> <<>>,
                ret |-> [model |-> <<>>, err |-> TRUE]]
    /\ pc' = "failed"
    /\ UNCHANGED <<cfg, fs, files, model, hist>>

\* scanFiles: one round of the loop over the files
ScanFile ==
    /\ pc = "scan"
    /\ files # <<>>
    /\ model' \in scanFile(cfg, NoEnv, model, fs.content[Head(files)])
    /\ files' = Tail(files)
    /\ hist' = Append(hist, Head(files))
    /\ UNCHANGED <<cfg, fs, pc, buildErr, call>>

\* Build returns the model
Finish ==
    /\ pc = "scan"
    /\ files = <<>>
    /\ call' = [fn |-> "Build", args |-> <<>>,
                ret |-> [model |-> <<model>>, err |-> FALSE]]
    /\ pc' = "done"
    /\ UNCHANGED <<cfg, fs, files, model, buildErr, hist>>

Next ==
    \/ FindFilesOk
    \/ FindFilesFailed
    \/ ScanFile
    \/ Finish

Spec == Init /\ [][Next]_vars

\* scanFiles over the files of order from position i on: the models the
\* scans can leave
RECURSIVE scanAll(_, _, _, _, _)
scanAll(c, tree, order, i, m) ==
    IF i > Len(order) THEN { m }
    ELSE UNION { scanAll(c, tree, order, i + 1, m2)
                 : m2 \in scanFile(c, NoEnv, m, tree.content[order[i]]) }

\* of a model: the name of each package, the set of its structs and the
\* alias of each of its imports
ModelView(m) ==
    [p \in DOMAIN m.Packages |->
       [Name    |-> m.Packages[p].Name,
        Structs |-> { <<m.Packages[p].Structs[i].Name, m.Packages[p].Structs[i].File>>
                      : i \in DOMAIN m.Packages[p].Structs },
        Aliases |-> [ip \in DOMAIN m.Packages[p].Imports |->
                       m.Packages[p].Imports[ip].Alias]]]

\* C26: for a fixed source tree and configuration, the model that Build
\* produces is the same for every order in which the file set is
\* enumerated: the same name for each package, the same set of structs per
\* package and the same alias for every import.
C26_FileOrderIndependent ==
    pc = "done" =>
      \A order \in Orders(findFiles(cfg, fs).paths) :
      \A m2 \in scanAll(cfg, fs, order, 1, NewModel) :
         ModelView(m2) = ModelView(model)

\* the ValueOutputs of a package of the model
ValueOutputsOf(pkg) ==
    UNION { UNION { { pkg.Structs[si].Getters[gi].Returns[ri].Value[1]
                      : ri \in { r \in DOMAIN pkg.Structs[si].Getters[gi].Returns :
                                   pkg.Structs[si].Getters[gi].Returns[r].Value # <<>> } }
                    : gi \in DOMAIN pkg.Structs[si].Getters }
            : si \in DOMAIN pkg.Structs }

\* C27: after Build, every ValueOutput of a package whose TypePackage has
\* path P carries the same alias as the entry registered for P in that
\* package's Imports, also when several fields or structs use the same
\* aliased import.
C27_ValueAliasIsRegisteredAlias ==
    pc = "done" =>
      \A p \in DOMAIN model.Packages :
      \A vo \in ValueOutputsOf(model.Packages[p]) :
         /\ vo.TypePackage.Path \in DOMAIN model.Packages[p].Imports
         /\ vo.TypePackage.Alias
              = model.Packages[p].Imports[vo.TypePackage.Path].Alias

\* what AddStruct does keep: the registered entry has the name of every
\* ValueOutput of its path, and an alias differs from the registered one
\* only by being empty
ValueAliasEmptyOrRegistered ==
    pc = "done" =>
      \A p \in DOMAIN model.Packages :
      \A vo \in ValueOutputsOf(model.Packages[p]) :
         /\ vo.TypePackage.Path \in DOMAIN model.Packages[p].Imports
         /\ vo.TypePackage.Name
              = model.Packages[p].Imports[vo.TypePackage.Path].Name
         /\ vo.TypePackage.Alias
              \in { <<>>, model.Packages[p].Imports[vo.TypePackage.Path].Alias }

\* an included declaration none of whose included fields gives a constant
\* or an accessor field, or satisfies all the returns of a getter
YieldsNothing(c, decl) ==
    \A nf \in IncludedNames(c, decl) :
       /\ \A ei \in DOMAIN c.Elements :
             c.Elements[ei].Output.Mode \in {"constant", "struct"} =>
                computeElementValue(nf[1], nf[2].tag, c.Elements[ei]) = <<>>
       /\ \A gi \in DOMAIN c.Getters :
             \E i \in DOMAIN c.Getters[gi].Returns :
                Lacks(nf[1], nf[2], c.Getters[gi].Returns[i])

\* C7: every StructModel found in a package's struct list after Build has
\* at least one constant, accessor record or getter; an included struct
\* whose fields yield no artifact produces no StructModel, does not create
\* a package entry and is not counted in StructsFound.
C7_NoEmptyStructModel ==
    pc = "done" =>
      /\ \A sm \in StructModels :
            Len(sm.Constants) + Len(sm.Structs) + Len(sm.Getters) >= 1
      /\ \A i \in DOMAIN hist :
         \A di \in DOMAIN fs.content[hist[i]].decls :
            LET decl == fs.content[hist[i]].decls[di]
            IN  (fs.content[hist[i]].parses
                 /\ mustIncludeStruct(cfg, decl).include
                 /\ YieldsNothing(cfg, decl))
                => ~\E sm \in StructModels :
                       sm.File = hist[i] /\ sm.Name = decl.name
      /\ \A p \in DOMAIN model.Packages : Len(model.Packages[p].Structs) >= 1
      /\ model.PackagesFound = Cardinality(DOMAIN model.Packages)
      /\ model.StructsFound =
           Cardinality(UNION { { <<p, i>> : i \in DOMAIN model.Packages[p].Structs }
                               : p \in DOMAIN model.Packages })

\* Build scanned a file of the directory q whose only struct has no fields
\* and a file of the directory p whose struct gave a constant: the model has
\* the package p alone, with one struct
C7_Witness ==
    /\ pc = "done"
    /\ Len(hist) = 2
    /\ fs.content["b"] = SourceFile("b", "q", S_k,
                                    <<StructDecl(S_User, <<>>, <<>>, <<>>)>>)
    /\ DOMAIN model.Packages = {"p"}
    /\ model.StructsFound = 1
    /\ model.PackagesFound = 1
    /\ model.FilesScanned = 2

\* some include or exclude pattern is a glob of invalid syntax
HasBadGlob(c) ==
    \/ \E i \in DOMAIN c.Input.Include :
          c.Input.Include[i].kind = "glob" /\ ~c.Input.Include[i].valid
    \/ \E i \in DOMAIN c.Input.Exclude :
          c.Input.Exclude[i].kind = "glob" /\ ~c.Input.Exclude[i].valid

\* C14: when an include or exclude glob is syntactically invalid, Build
\* never scans a file and never returns a model: it returns an error and
\* nil, FilesScanned is 0, there is no package and no ScanError.
C14_InvalidGlobAborts ==
    HasBadGlob(cfg) =>
      /\ findFiles(cfg, fs).err
      /\ pc \in {"start", "failed"}
      /\ hist = <<>>
      /\ model.FilesScanned = 0
      /\ DOMAIN model.Packages = {}
      /\ model.Errors = <<>>
      /\ pc = "failed" =>
           /\ buildErr
           /\ call.ret.err
           /\ call.ret.model = <<>>

\* Build failed on include = [a glob matching both files, an invalid glob]
\* over a tree of two files
C14_Witness ==
    /\ pc = "failed"
    /\ Len(cfg.Input.Include) = 2
    /\ cfg.Input.Include[1].valid
    /\ cfg.Input.Include[1].matches = {"a", "b"}
    /\ ~cfg.Input.Include[2].valid
    /\ cfg.Input.Exclude = <<>>
    /\ call.ret = [model |-> <<>>, err |-> TRUE]
    /\ model.FilesScanned = 0

\* some include or exclude pattern is package:NAME
HasPackagePattern(c) ==
    \/ \E i \in DOMAIN c.Input.Include : c.Input.Include[i].kind = "package"
    \/ \E i \in DOMAIN c.Input.Exclude : c.Input.Exclude[i].kind = "package"

\* C17: Build returns an error only when some include or exclude glob is
\* syntactically invalid; a failing directory walk of a package:NAME
\* pattern, an unparsable file or an unresolvable import does not make it
\* return one.
C17_ErrorOnlyOnBadGlob ==
    /\ buildErr => HasBadGlob(cfg)
    /\ (pc = "failed" /\ call.ret.err) => HasBadGlob(cfg)

\* C17, amended: Build returns an error only when some include or exclude
\* glob is syntactically invalid or the directory walk that expands a
\* package:NAME pattern fails; an unparsable file or an unresolvable import
\* does not make it return one: with valid globs and a walk that succeeds,
\* Build scans the files and returns the model.
C17_ErrorOnlyFromDiscovery ==
    /\ buildErr => (HasBadGlob(cfg) \/ (fs.walkErr /\ HasPackagePattern(cfg)))
    /\ (pc \in {"failed", "done"} /\ call.ret.err) =>
          (HasBadGlob(cfg) \/ (fs.walkErr /\ HasPackagePattern(cfg)))
    /\ (~HasBadGlob(cfg) /\ ~(fs.walkErr /\ HasPackagePattern(cfg))) =>
          /\ pc # "failed"
          /\ ~findFiles(cfg, fs).err

\* Build returned a model and no error after scanning a file that does not
\* parse and a file whose import nothing resolves, found by a glob while
\* the directory walk would fail
C17_Witness ==
    /\ pc = "done"
    /\ ~buildErr
    /\ call.ret.err = FALSE
    /\ fs.walkErr
    /\ ~HasPackagePattern(cfg)
    /\ Len(hist) = 2
    /\ \E i \in DOMAIN hist : ~fs.content[hist[i]].parses
    /\ \E i \in DOMAIN hist : fs.content[hist[i]].imports # <<>>
    /\ Len(model.Errors) = 1

\* C15: a scanned file that does not parse has exactly one ScanError, with
\* its path and the line of the syntax error; no StructModel comes from it
\* and every package of the model has a scanned file that parses; the run
\* goes on: when Build returns, every file findFiles gave was scanned once
\* and Build returned the model and no error.
C15_ParseFailureRecorded ==
    /\ \A i \in DOMAIN hist :
          ~fs.content[hist[i]].parses =>
             /\ Cardinality({ k \in DOMAIN model.Errors :
                                model.Errors[k].File = hist[i] }) = 1
             /\ \A k \in DOMAIN model.Errors :
                   model.Errors[k].File = hist[i] =>
                      /\ model.Errors[k].Line = fs.content[hist[i]].errLine
                      /\ model.Errors[k].Message = S_parseFailed
             /\ ~\E sm \in StructModels : sm.File = hist[i]
    /\ \A p \in DOMAIN model.Packages :
          \E i \in DOMAIN hist :
             fs.content[hist[i]].parses /\ fs.content[hist[i]].dir = p
    /\ pc = "done" =>
          /\ { hist[i] : i \in DOMAIN hist } = findFiles(cfg, fs).paths
          /\ Len(hist) = Cardinality(findFiles(cfg, fs).paths)
          /\ model.FilesScanned = Len(hist)
          /\ ~buildErr
          /\ call.ret = [model |-> <<model>>, err |-> FALSE]

\* Build scanned a file that does not parse first and a file with a tagged
\* struct after it: one error for the first, one struct from the second
C15_Witness ==
    /\ pc = "done"
    /\ Len(hist) = 2
    /\ ~fs.content[hist[1]].parses
    /\ fs.content[hist[2]].parses
    /\ Len(model.Errors) = 1
    /\ model.Errors[1].File = hist[1]
    /\ \E sm \in StructModels : sm.File = hist[2]
    /\ model.FilesScanned = 2
    /\ ~buildErr

====
